---- MODULE Spec2Model ----
(***************************************************************************)
(* Model of the data-analysis / model-training application:                *)
(*   - utils/modeling.ts    (trainModel, splitData, shuffle, 11 trainers)  *)
(*   - utils/validation.ts  (validatePreprocessing, validateModeling,      *)
(*                           preprocessData)                               *)
(*   - utils/dataAnalysis.ts (analyzeColumn, calculateCorrelation,         *)
(*                           detectOutliers)                               *)
(*   - components/ModelTraining.tsx and App.tsx (the training UI)          *)
(*                                                                         *)
(* Numbers.  In trainModel, the validators and the UI a JavaScript number  *)
(* is modelled as a record [nan, v]: NaN is [nan |-> TRUE, v |-> 0], every *)
(* other value used there is an integer and the arithmetic on them is      *)
(* exact.  A value that a trainer obtains from a floating-point            *)
(* optimisation loop (gradient descent, boosting, random trees) is not     *)
(* tracked numerically in trainModel: it is the prediction value           *)
(* OpaqueVal, which stands for "some float".  The statistics, the          *)
(* preprocessing and the gradient descent of trainLinearRegression, whose  *)
(* results depend on rounding, compute with the floating-point numbers     *)
(* defined below.                                                          *)
(***************************************************************************)
EXTENDS Integers, Sequences, FiniteSets, TLC

VARIABLES
  \* ---- harness of splitData / shuffle (modeling.ts:81-109)
  splitArgs,      \* [data, testSize, seed] of the invocations
  splitRuns,      \* the partitions returned by the invocations so far
  \* ---- harness of trainModel (modeling.ts:22-79)
  trainArgs,      \* [data, config]
  trainOut,       \* outcome of trainModel: result or thrown error, progress log
  \* ---- harness of validateModeling / validatePreprocessing
  validArgs,      \* the arguments
  validOut,       \* the ValidationResult
  \* ---- the training UI: App (part_002) and ModelTraining.tsx
  data,           \* App state `data`
  columnInfo,     \* App state `columnInfo`
  datasetId,      \* App state `datasetId` (TRUE: a dataset row was saved)
  modelType,      \* ModelTraining state
  targetColumn,
  featureColumns,
  testSize,
  isTraining,
  progress,
  result,
  pc,             \* position of the asynchronous handleTrain
  config,         \* the ModelConfig built by handleTrain for the run in flight
  pending,        \* the TrainingResult held by the suspended App.handleTrain
  alerts,         \* the last alert() shown (<<>> for none)
  lastClick,      \* what the last click on 'Start Training' did
  edits,          \* number of selection changes made so far
  uncaught,       \* number of errors that escaped to the global error handler
  \* ---- harness of preprocessData (validation.ts:289-340)
  preArgs,        \* [data, config]
  preOut,         \* the PreprocessedData returned
  \* ---- harness of the column statistics (part_003:28-108)
  statArgs,       \* [fn, x, y, type]: the function called and its arguments
  statOut,        \* what the function returned
  \* ---- the gradient descent of trainLinearRegression (modeling.ts:111-178)
  fit,            \* [X_train, y_train, featureNames, weights, iter, featureImportance]
  \* ---- the steps of App (part_002:15-149)
  app             \* the state of App and its suspended handlers

splitVars == <<splitArgs, splitRuns>>
trainVars == <<trainArgs, trainOut>>
validVars == <<validArgs, validOut>>
preVars == <<preArgs, preOut>>
statVars == <<statArgs, statOut>>
fitVars == <<fit>>
appVars == <<app>>
uiVars == <<data, columnInfo, datasetId, modelType, targetColumn, featureColumns,
            testSize, isTraining, progress, result, pc, config, pending, alerts,
            lastClick, edits, uncaught>>
vars == <<splitArgs, splitRuns, trainArgs, trainOut, validArgs, validOut,
          data, columnInfo, datasetId, modelType, targetColumn, featureColumns,
          testSize, isTraining, progress, result, pc, config, pending, alerts,
          lastClick, edits, uncaught, preArgs, preOut,
          statArgs, statOut, fit, app>>

(***************************************************************************)
(* Bounds                                                                  *)
(***************************************************************************)
MaxSplitRows == 6    \* largest dataset handed to the splitData harness
MaxTrainRows == 13   \* largest dataset handed to the trainModel harness
MaxValidRows == 21   \* largest dataset handed to the validation harness
MaxUIRows == 20      \* largest dataset loaded into the training UI
MaxEdits == 3        \* selection changes made in the training UI
MantissaBits == 5    \* significand bits of the modelled floating point
MaxPreRows == 3      \* largest dataset handed to the preprocessData harness
MaxStatLen == 4      \* longest list handed to the statistics harness
MaxFitRows == 2      \* largest training set handed to the gradient descent
MaxAppEvents == 5    \* uploads and clicks in one run of App

(***************************************************************************)
(* JavaScript values                                                       *)
(***************************************************************************)
NaN == [nan |-> TRUE, v |-> 0]
Num(i) == [nan |-> FALSE, v |-> i]
IsNaN(x) == x.nan

\* x === y on numbers: NaN is not equal to anything, itself included
StrictEq(x, y) == ~x.nan /\ ~y.nan /\ x.v = y.v
\* SameValueZero, the equality of Set and Map keys: NaN equals NaN
SameValueZero(x, y) == (x.nan /\ y.nan) \/ StrictEq(x, y)

\* a raw cell of a record: a numeric string or number, a non-numeric
\* string, or the empty string (parseCSV yields strings)
NumCell(i) == [kind |-> "num", v |-> i]
TextCell == [kind |-> "text", v |-> 0]
EmptyCell == [kind |-> "empty", v |-> 0]
\* null and undefined in a cell, and a cell that holds a number, not a string
NullCell == [kind |-> "null", v |-> 0]
UndefinedCell == [kind |-> "undefined", v |-> 0]

\* Number(value): '' coerces to 0, a non-numeric string to NaN
Number(cell) ==
  CASE cell.kind = "num" -> Num(cell.v)
    [] cell.kind = "empty" -> Num(0)
    [] cell.kind = "null" -> Num(0)
    [] OTHER -> NaN

\* the value `undefined` where a row is expected
Undefined == [undefined |-> TRUE]

Min(a, b) == IF a <= b THEN a ELSE b
Max(a, b) == IF a >= b THEN a ELSE b

\* array.slice(from, to) with 0-based, non-negative bounds, as a sequence
Slice(s, from, to) ==
  LET lo == Min(from, Len(s))
      hi == Min(Max(to, lo), Len(s))
  IN [k \in 1..(hi - lo) |-> s[lo + k]]

\* array.map(f)
Map(f(_), s) == [k \in 1..Len(s) |-> f(s[k])]

(***************************************************************************)
(* Floating point.  The statistics and the scaling compute in IEEE-754      *)
(* binary floating point with round-to-nearest-even.  The model keeps the  *)
(* rounding and narrows the significand from 53 bits to MantissaBits bits, *)
(* without underflow: a finite value is m * 2^e with m odd (or m = 0,      *)
(* e = 0), |m| < 2^MantissaBits and |m * 2^e| < 2^MaxExponent; a result     *)
(* beyond that range is an infinity.                                       *)
(***************************************************************************)
\* a number of 2^1024 or more overflows to Infinity
MaxExponent == 1024

FNaN == [k |-> "nan", m |-> 0, e |-> 0]
FInf(sign) == [k |-> "inf", m |-> sign, e |-> 0]
FZero == [k |-> "fin", m |-> 0, e |-> 0]

Abs(n) == IF n < 0 THEN 0 - n ELSE n
Sign(n) == IF n < 0 THEN 0 - 1 ELSE IF n > 0 THEN 1 ELSE 0

RECURSIVE BitLen(_)
BitLen(n) == IF n = 0 THEN 0 ELSE 1 + BitLen(n \div 2)

RECURSIVE Canon(_, _)
\* the finite value m * 2^e in canonical form
Canon(m, e) ==
  IF m = 0 THEN FZero
  ELSE IF m % 2 = 0 THEN Canon(m \div 2, e + 1)
  ELSE IF e + BitLen(Abs(m)) > MaxExponent THEN FInf(Sign(m))
  ELSE [k |-> "fin", m |-> m, e |-> e]

\* n * 2^e rounded to MantissaBits significant bits, ties to even
Round(n, e) ==
  LET a == Abs(n)
      drop == BitLen(a) - MantissaBits
  IN IF drop <= 0 THEN Canon(n, e)
     ELSE LET q == a \div (2 ^ drop)
              r == a % (2 ^ drop)
              half == 2 ^ (drop - 1)
              qq == IF r > half \/ (r = half /\ q % 2 = 1) THEN q + 1 ELSE q
          IN Canon(Sign(n) * qq, e + drop)

\* the float nearest to the integer i
FInt(i) == Round(i, 0)

\* the exponent just above the leading bit of a finite non-zero value
Top(a) == a.e + BitLen(Abs(a.m))

FNeg(a) == IF a.k = "nan" THEN FNaN ELSE [a EXCEPT !.m = 0 - a.m]

\* a + b
FAdd(a, b) ==
  CASE a.k = "nan" \/ b.k = "nan" -> FNaN
    [] a.k = "inf" /\ b.k = "inf" -> IF a.m = b.m THEN a ELSE FNaN
    [] a.k = "inf" -> a
    [] b.k = "inf" -> b
    [] a.m = 0 -> b
    [] b.m = 0 -> a
    [] Top(b) <= Top(a) - MantissaBits - 2 -> a    \* b is below half an ulp of a
    [] Top(a) <= Top(b) - MantissaBits - 2 -> b
    [] OTHER -> LET e == Min(a.e, b.e)
                IN Round(a.m * (2 ^ (a.e - e)) + b.m * (2 ^ (b.e - e)), e)

FSub(a, b) == FAdd(a, FNeg(b))

\* a * b
FMul(a, b) ==
  CASE a.k = "nan" \/ b.k = "nan" -> FNaN
    [] a.k = "inf" \/ b.k = "inf" ->
         IF a.m = 0 \/ b.m = 0 THEN FNaN ELSE FInf(Sign(a.m) * Sign(b.m))
    [] OTHER -> Round(a.m * b.m, a.e + b.e)

\* a / b: the quotient is taken to 2 * MantissaBits + 1 extra bits and a
\* non-zero remainder is kept as a trailing sticky bit
FDiv(a, b) ==
  CASE a.k = "nan" \/ b.k = "nan" -> FNaN
    [] a.k = "inf" -> IF b.k = "inf" THEN FNaN
                      ELSE FInf(a.m * (IF b.m < 0 THEN 0 - 1 ELSE 1))
    [] b.k = "inf" -> FZero
    [] b.m = 0 -> IF a.m = 0 THEN FNaN ELSE FInf(Sign(a.m))
    [] a.m = 0 -> FZero
    [] OTHER ->
         LET s == 2 * MantissaBits + 1
             n == Abs(a.m) * (2 ^ s)
             q == n \div Abs(b.m)
             sticky == IF n % Abs(b.m) = 0 THEN 0 ELSE 1
         IN Round(Sign(a.m) * Sign(b.m) * (2 * q + sticky), a.e - b.e - s - 1)

\* floor of the square root of a natural number
ISqrt(n) == CHOOSE r \in 0..(2 ^ (MantissaBits + 3)) : r * r <= n /\ n < (r + 1) * (r + 1)

\* Math.sqrt(a)
FSqrt(a) ==
  CASE a.k = "nan" -> FNaN
    [] a.k = "inf" -> IF a.m > 0 THEN a ELSE FNaN
    [] a.m < 0 -> FNaN
    [] a.m = 0 -> FZero
    [] OTHER ->
         LET s0 == Max(0, 2 * MantissaBits + 3 - BitLen(a.m))
             s == IF (a.e - s0) % 2 = 0 THEN s0 ELSE s0 + 1
             n == a.m * (2 ^ s)
             r == ISqrt(n)
             sticky == IF r * r = n THEN 0 ELSE 1
         IN Round(2 * r + sticky, ((a.e - s) \div 2) - 1)

\* Math.abs(a)
FAbs(a) == IF a.k = "nan" THEN FNaN ELSE [a EXCEPT !.m = Abs(a.m)]

\* a < b, a === b
FLt(a, b) ==
  CASE a.k = "nan" \/ b.k = "nan" -> FALSE
    [] a.k = "inf" /\ b.k = "inf" -> a.m < b.m
    [] OTHER -> FSub(a, b).m < 0
FEq(a, b) == a.k # "nan" /\ b.k # "nan" /\ a = b
FLeq(a, b) == FLt(a, b) \/ FEq(a, b)

(***************************************************************************)
(* Datasets.  Three columns: a and b are features, y is the target.        *)
(* Dataset(n, badRow, badCol) has n rows; row badRow (0: none) holds a     *)
(* non-numeric string in column badCol.                                    *)
(***************************************************************************)
Columns == <<"a", "b", "y">>

CleanRow(i) == [a |-> NumCell(i), b |-> NumCell((i * i) % 5), y |-> NumCell(i % 2)]

Dataset(n, badRow, badCol) ==
  [i \in 1..n |->
     IF i = badRow THEN [CleanRow(i) EXCEPT ![badCol] = TextCell] ELSE CleanRow(i)]

\* config.testSize, in percent: 20 is 0.2
TestSizes == {20, 50, 90}

\* config.randomSeed: <<>> when absent, <<s>> for the integer s
NoSeed == <<>>
Seeds == {NoSeed, <<0>>, <<42>>, <<7>>, <<-7>>}

\* values Date.now() may return
NowValues == {1, 2, 3}

(***************************************************************************)
(* splitData and shuffle (modeling.ts:81-109)                              *)
(***************************************************************************)
LcgModulus == 233280
LcgMultiplier == 9301
LcgIncrement == 49297

\* (currentSeed * 9301 + 49297) % 233280 with JavaScript's %, whose result
\* has the sign of the dividend.  The product is reduced piecewise
\* (9301 = 93 * 100 + 1) so that no intermediate value exceeds 32 bits.
LcgNext(s) ==
  LET m == LcgModulus
      sm == s % m
      r == ((((sm * (LcgMultiplier \div 100)) % m) * 100
               + sm * (LcgMultiplier % 100) + LcgIncrement) % m)
  IN IF s >= -5 THEN r             \* the dividend is not negative
     ELSE IF r = 0 THEN 0 ELSE r - m

\* [result[i], result[j]] = [result[j], result[i]] on an array held as
\* a function of its 0-based indices; a negative j is a property of the
\* array object, which reads as undefined until it is written
Swap(arr, i, j) == [arr EXCEPT ![i] = arr[j], ![j] = arr[i]]

\* the loop of shuffle: for (i = length - 1; i > 0; i--)
RECURSIVE ShuffleLoop(_, _, _)
ShuffleLoop(arr, currentSeed, i) ==
  IF i <= 0 THEN arr
  ELSE LET s == LcgNext(currentSeed)
           j == (s * (i + 1)) \div LcgModulus   \* Math.floor(random() * (i + 1))
       IN ShuffleLoop(Swap(arr, i, j), s, i - 1)

\* shuffle(array, seed): `now` is the value of Date.now()
shuffle(array, seed, now) ==
  LET n == Len(array)
      currentSeed == IF seed = NoSeed \/ seed[1] = 0 THEN now ELSE seed[1]
      start == [k \in (0 - n)..(n - 1) |-> IF k >= 0 THEN array[k + 1] ELSE Undefined]
      final == ShuffleLoop(start, currentSeed, n - 1)
  IN [k \in 1..n |-> final[k - 1]]

\* Math.floor(data.length * testSize)
TestCount(n, pct) == (n * pct) \div 100

\* splitData taking the test rows from the end of the shuffled order
splitData_TestLast(d, pct, seed, now) ==
  LET shuffled == shuffle(d, seed, now)
      testCount == TestCount(Len(d), pct)
  IN [testData |-> Slice(shuffled, Len(shuffled) - testCount, Len(shuffled)),
      trainData |-> Slice(shuffled, 0, Len(shuffled) - testCount)]

splitData(d, pct, seed, now) ==
  LET shuffled == shuffle(d, seed, now)
      testCount == TestCount(Len(d), pct)
  IN [testData |-> Slice(shuffled, 0, testCount),
      trainData |-> Slice(shuffled, testCount, Len(shuffled))]

(***************************************************************************)
(* Values of predictions                                                   *)
(***************************************************************************)
IntVal(i) == [kind |-> "int", v |-> i]
NaNVal == [kind |-> "nan", v |-> 0]
UndefVal == [kind |-> "undefined", v |-> 0]
\* a value decided by floating-point computation or Math.random(), which
\* the model does not track
OpaqueVal == [kind |-> "opaque", v |-> 0]

ValOf(x) == IF x.nan THEN NaNVal ELSE IntVal(x.v)

HasNaN(row) == \E j \in 1..Len(row) : row[j].nan
AnyNaNRow(X) == \E i \in 1..Len(X) : HasNaN(X[i])
AnyNaN(ys) == \E i \in 1..Len(ys) : ys[i].nan

(***************************************************************************)
(* Progress values are rationals <<numerator, denominator>>                *)
(***************************************************************************)
P(n) == <<n, 1>>
PLeq(p, q) == p[1] * q[2] <= q[1] * p[2]
PEq(p, q) == p[1] * q[2] = q[1] * p[2]

\* LoopProgress with the division by `total` left out
LoopProgress_NoDivision(base, span, total, every, count) ==
  [k \in 1..((count + every - 1) \div every) |->
     <<base + ((k - 1) * every) * span, 1>>]

\* the calls  if (i % every === 0) onProgress(base + (i / total) * span)
\* made by a loop over i = 0 .. count - 1
LoopProgress(base, span, total, every, count) ==
  [k \in 1..((count + every - 1) \div every) |->
     <<base * total + ((k - 1) * every) * span, total>>]

(***************************************************************************)
(* What a trainer call produces: a TrainingResult, or a thrown error.      *)
(* log is the sequence of values passed to onProgress.                     *)
(***************************************************************************)
Returned(type, predictions, hasActual, actualValues, log) ==
  [threw |-> FALSE, error |-> "", trainer |-> "", modelType |-> type,
   predictions |-> predictions, hasActual |-> hasActual,
   actualValues |-> actualValues, log |-> log]

Thrown(error, log) ==
  [threw |-> TRUE, error |-> error, trainer |-> "", modelType |-> "",
   predictions |-> <<>>, hasActual |-> FALSE, actualValues |-> <<>>, log |-> log]

(***************************************************************************)
(* trainLinearRegression (modeling.ts:111-178)                             *)
(***************************************************************************)
\* one NaN in a training row or target makes every weight NaN in the
\* first iteration (errors[i] * row[j] is summed into every gradient)
LinearPredict(X_train, y_train, x) ==
  IF AnyNaNRow(X_train) \/ AnyNaN(y_train) \/ HasNaN(x) THEN NaNVal ELSE OpaqueVal

trainLinearRegression(X_train, y_train, X_test, y_test, featureNames) ==
  IF Len(X_train) = 0
  THEN Thrown("TypeError", <<P(20)>>)            \* X_train[0].length
  ELSE LET predict(x) == LinearPredict(X_train, y_train, x)
       IN Returned("linear_regression", Map(predict, X_test), TRUE, y_test,
                   <<P(20)>> \o LoopProgress(20, 60, 1000, 100, 1000)
                             \o <<P(80), P(100)>>)

(***************************************************************************)
(* trainLogisticRegression (modeling.ts:180-250)                           *)
(***************************************************************************)
\* sigmoid(NaN) > 0.5 is false: the prediction is 0
LogisticPredict(X_train, y_train, x) ==
  IF AnyNaNRow(X_train) \/ AnyNaN(y_train) \/ HasNaN(x) THEN IntVal(0) ELSE OpaqueVal

trainLogisticRegression(X_train, y_train, X_test, y_test, featureNames) ==
  IF Len(X_train) = 0
  THEN Thrown("TypeError", <<P(20)>>)            \* X_train[0].length
  ELSE LET predict(x) == LogisticPredict(X_train, y_train, x)
       IN Returned("logistic_regression", Map(predict, X_test), TRUE, y_test,
                   <<P(20)>> \o LoopProgress(20, 60, 1000, 100, 1000)
                             \o <<P(80), P(100)>>)

(***************************************************************************)
(* trainDecisionTree (modeling.ts:252-295)                                 *)
(***************************************************************************)
\* Array.from(new Set(ys)): first occurrences, NaN counted once
RECURSIVE UniqueLabels(_, _)
UniqueLabels(ys, seen) ==
  IF ys = <<>> THEN seen
  ELSE UniqueLabels(Tail(ys),
         IF \E k \in 1..Len(seen) : SameValueZero(seen[k], Head(ys))
         THEN seen ELSE Append(seen, Head(ys)))

\* y_train.filter(y => y === label).length
CountLabel(ys, label) == Cardinality({i \in 1..Len(ys) : StrictEq(ys[i], label)})

\* uniqueLabels[counts.indexOf(Math.max(...counts))]
MajorityLabel(y_train) ==
  LET uniqueLabels == UniqueLabels(y_train, <<>>)
      counts == [k \in 1..Len(uniqueLabels) |-> CountLabel(y_train, uniqueLabels[k])]
  IN IF uniqueLabels = <<>> THEN UndefVal       \* uniqueLabels[-1]
     ELSE LET maxIndex == CHOOSE k \in 1..Len(counts) :
                            /\ \A l \in 1..Len(counts) : counts[l] <= counts[k]
                            /\ \A l \in 1..(k - 1) : counts[l] < counts[k]
          IN ValOf(uniqueLabels[maxIndex])

trainDecisionTree(X_train, y_train, X_test, y_test, featureNames) ==
  LET majority == MajorityLabel(y_train)
      predict(x) == majority
  IN Returned("decision_tree", Map(predict, X_test), TRUE, y_test, <<P(50), P(100)>>)

(***************************************************************************)
(* trainKMeans (modeling.ts:297-361)                                       *)
(*                                                                         *)
(* A centroid is held as [sum, cnt]: the coordinate-wise sum of the points *)
(* of its cluster and their number, so that the mean sum/cnt and the       *)
(* comparison of distances stay exact.  Math.sqrt is monotone, so the      *)
(* closest centroid is the one of least squared distance.                  *)
(***************************************************************************)
KMeansMaxIterations == 100

Ints(row) == [j \in 1..Len(row) |-> row[j].v]

RECURSIVE SumSq(_, _, _)
\* sum over j of (point[j] * cnt - sum[j])^2
SumSq(point, c, j) ==
  IF j > Len(point) THEN 0
  ELSE (point[j] * c.cnt - c.sum[j]) * (point[j] * c.cnt - c.sum[j])
         + SumSq(point, c, j + 1)

\* distance(point, c1) < distance(point, c2)
Closer(point, c1, c2) ==
  SumSq(point, c1, 1) * (c2.cnt * c2.cnt) < SumSq(point, c2, 1) * (c1.cnt * c1.cnt)

\* distances.indexOf(Math.min(...distances)), 0-based, for a NaN-free point:
\* the first centroid at least distance; -1 when there is no centroid
ClosestCluster(point, centroids) ==
  IF centroids = <<>> THEN -1
  ELSE (CHOOSE c \in 1..Len(centroids) :
          /\ \A d \in 1..Len(centroids) : ~Closer(point, centroids[d], centroids[c])
          /\ \A d \in 1..(c - 1) : Closer(point, centroids[c], centroids[d])) - 1

RECURSIVE SumPoints(_, _, _)
SumPoints(points, idxs, m) ==
  IF idxs = {} THEN [j \in 1..m |-> 0]
  ELSE LET i == CHOOSE i \in idxs : TRUE
           rest == SumPoints(points, idxs \ {i}, m)
       IN [j \in 1..m |-> points[i][j] + rest[j]]

\* an iteration in which an empty cluster keeps its own centroid
KMeansStep_KeepsOwn(points, centroids, m) ==
  LET assigned == [i \in 1..Len(points) |-> ClosestCluster(points[i], centroids)]
  IN [c \in 1..Len(centroids) |->
        LET cluster == {i \in 1..Len(points) : assigned[i] = c - 1}
        IN IF cluster = {} THEN centroids[c]
           ELSE [sum |-> SumPoints(points, cluster, m), cnt |-> Cardinality(cluster)]]

\* one iteration of the loop: assign every training point, recompute
KMeansStep(points, centroids, m) ==
  LET assigned == [i \in 1..Len(points) |-> ClosestCluster(points[i], centroids)]
  IN [c \in 1..Len(centroids) |->
        LET cluster == {i \in 1..Len(points) : assigned[i] = c - 1}
        IN IF cluster = {} THEN centroids[1]       \* return centroids[0]
           ELSE [sum |-> SumPoints(points, cluster, m), cnt |-> Cardinality(cluster)]]

\* for (iter = 0; iter < maxIterations; iter++).  An iteration is a function
\* of the centroids alone: once one leaves them unchanged, so do all the
\* remaining ones, and the loop's result is known.
RECURSIVE KMeansLoop(_, _, _, _)
KMeansLoop(points, centroids, m, iter) ==
  IF iter >= KMeansMaxIterations THEN centroids
  ELSE LET newCentroids == KMeansStep(points, centroids, m)
       IN IF newCentroids = centroids THEN centroids
          ELSE KMeansLoop(points, newCentroids, m, iter + 1)

\* the prediction of one test point; -1 is what indexOf returns when the
\* minimum is NaN or there is no centroid
KMeansPredict(x, centroids) ==
  IF Len(x) > 0 /\ HasNaN(x) /\ centroids # <<>> THEN -1
  ELSE ClosestCluster(Ints(x), centroids)

\* centroids = X_train.slice(0, k), then the loop
KMeansCentroids(X_train, k, m) ==
  LET points == Map(Ints, X_train)
      start == [c \in 1..k |-> [sum |-> points[c], cnt |-> 1]]
  IN KMeansLoop(points, start, m, 0)

\* trainKMeans returning the cluster of every training point instead of
\* every test point
trainKMeans_TrainAssignments(X_train, X_test, featureNames) ==
  LET k == Min(3, Len(X_train))
      m == Len(featureNames)
  IN IF m > 0 /\ AnyNaNRow(X_train)
     THEN Thrown("TypeError", <<P(20)>>)
     ELSE LET centroids == KMeansCentroids(X_train, k, m)
              predictions == [i \in 1..Len(X_train) |-> KMeansPredict(X_train[i], centroids)]
          IN Returned("kmeans", Map(IntVal, predictions), FALSE, <<>>,
                      <<P(20)>> \o LoopProgress(20, 60, 100, 10, KMeansMaxIterations)
                                \o <<P(80), P(100)>>)

trainKMeans(X_train, X_test, featureNames) ==
  LET k == Min(3, Len(X_train))
      m == Len(featureNames)
  IN IF m > 0 /\ AnyNaNRow(X_train)
     THEN Thrown("TypeError", <<P(20)>>)          \* clusters[-1].push(idx)
     ELSE LET centroids == KMeansCentroids(X_train, k, m)
              predictions == [i \in 1..Len(X_test) |-> KMeansPredict(X_test[i], centroids)]
              log == <<P(20)>> \o LoopProgress(20, 60, 100, 10, KMeansMaxIterations)
                               \o <<P(80)>>
          IN IF m > 0 /\ \E i \in 1..Len(X_test) : predictions[i] = -1
             THEN Thrown("TypeError", log)        \* centroids[-1][j]
             ELSE Returned("kmeans", Map(IntVal, predictions), FALSE, <<>>,
                           log \o <<P(100)>>)

(***************************************************************************)
(* trainRandomForest (modeling.ts:363-477)                                 *)
(***************************************************************************)
\* the trees are built from Math.random(): predictions are not tracked
trainRandomForest(X_train, y_train, X_test, y_test, featureNames) ==
  LET predict(x) == OpaqueVal
  IN Returned("random_forest", Map(predict, X_test), TRUE, y_test,
              <<P(10)>> \o LoopProgress(10, 70, 10, 1, 10) \o <<P(100)>>)

(***************************************************************************)
(* trainGradientBoosting (modeling.ts:479-633)                             *)
(***************************************************************************)
trainGradientBoosting(X_train, y_train, X_test, y_test, featureNames) ==
  IF Len(X_train) = 0
  THEN Thrown("TypeError", <<P(10)>>)            \* X[0].length in buildStump
  ELSE LET predict(x) == OpaqueVal
       IN Returned("gradient_boosting", Map(predict, X_test), TRUE, y_test,
                   <<P(10)>> \o LoopProgress(10, 80, 20, 1, 20) \o <<P(100)>>)

(***************************************************************************)
(* trainXGBoost (modeling.ts:635-802)                                      *)
(***************************************************************************)
trainXGBoost(X_train, y_train, X_test, y_test, featureNames) ==
  LET predict(x) == OpaqueVal
  IN Returned("xgboost", Map(predict, X_test), TRUE, y_test,
              <<P(10)>> \o LoopProgress(10, 80, 30, 1, 30) \o <<P(100)>>)

(***************************************************************************)
(* trainSVM (modeling.ts:804-899)                                          *)
(***************************************************************************)
\* a NaN margin fails `y * prediction < 1`, so the weights stay numbers;
\* a NaN test score fails `pred >= 0`: the prediction is 0
SVMPredict(x) == IF HasNaN(x) THEN IntVal(0) ELSE OpaqueVal

trainSVM(X_train, y_train, X_test, y_test, featureNames) ==
  IF Len(X_train) = 0
  THEN Thrown("TypeError", <<P(10)>>)            \* X_train[0].length
  ELSE LET predict(x) == SVMPredict(x)
       IN Returned("svm", Map(predict, X_test), TRUE, y_test,
                   <<P(10)>> \o LoopProgress(10, 70, 100, 10, 100)
                             \o <<P(80), P(100)>>)

(***************************************************************************)
(* trainKNN (modeling.ts:901-957)                                          *)
(***************************************************************************)
RECURSIVE SqDist(_, _, _)
\* sum over j of (a[j] - b[j])^2, for NaN-free rows
SqDist(a, b, j) ==
  IF j > Len(a) THEN 0
  ELSE (a[j].v - b[j].v) * (a[j].v - b[j].v) + SqDist(a, b, j + 1)

\* distances.sort((a, b) => a.distance - b.distance).slice(0, k): the
\* indices of the k nearest training rows; the sort is stable
KNearest(X_train, testPoint, k) ==
  LET dist == [i \in 1..Len(X_train) |-> SqDist(X_train[i], testPoint, 1)]
      before(i, l) == dist[i] < dist[l] \/ (dist[i] = dist[l] /\ i < l)
      rank(l) == Cardinality({i \in 1..Len(X_train) : before(i, l)})
  IN [r \in 1..k |-> CHOOSE l \in 1..Len(X_train) : rank(l) = r - 1]

\* labelCounts is a Map: keys are compared with SameValueZero and iterated
\* in insertion order; the first label of the largest count wins
KNNVote(labels) ==
  LET keys == UniqueLabels(labels, <<>>)
      count(key) == Cardinality({i \in 1..Len(labels) : SameValueZero(labels[i], key)})
      best == CHOOSE c \in 1..Len(keys) :
                /\ \A d \in 1..Len(keys) : count(keys[d]) <= count(keys[c])
                /\ \A d \in 1..(c - 1) : count(keys[d]) < count(keys[c])
  IN ValOf(keys[best])

\* a NaN distance makes the comparator inconsistent: the order of the
\* sort, and with it the vote, is left to the engine
KNNPredict(X_train, y_train, x) ==
  LET k == Min(5, Len(X_train))
  IN IF HasNaN(x) \/ AnyNaNRow(X_train) THEN OpaqueVal
     ELSE LET nearest == KNearest(X_train, x, k)
          IN KNNVote([r \in 1..k |-> y_train[nearest[r]]])

trainKNN(X_train, y_train, X_test, y_test, featureNames) ==
  LET k == Min(5, Len(X_train))
  IN IF Len(X_train) = 0 /\ Len(X_test) > 0
     THEN Thrown("TypeError", <<P(20)>>)          \* kNearest[0].label
     ELSE LET predict(x) == KNNPredict(X_train, y_train, x)
          IN Returned("knn", Map(predict, X_test), TRUE, y_test,
                      <<P(20)>> \o LoopProgress(20, 60, Len(X_test), 10, Len(X_test))
                                \o <<P(80), P(100)>>)

(***************************************************************************)
(* trainNaiveBayes (modeling.ts:959-1050)                                  *)
(***************************************************************************)
\* bestClass starts as classes[0] and is replaced by a class of larger
\* log-probability: undefined without classes, classes[0] when it is alone
NaiveBayesPredict(y_train, x) ==
  LET classes == UniqueLabels(y_train, <<>>)
  IN IF classes = <<>> THEN UndefVal
     ELSE IF Len(classes) = 1 THEN ValOf(classes[1])
     ELSE OpaqueVal

trainNaiveBayes(X_train, y_train, X_test, y_test, featureNames) ==
  LET predict(x) == NaiveBayesPredict(y_train, x)
  IN Returned("naive_bayes", Map(predict, X_test), TRUE, y_test,
              <<P(20), P(60)>> \o LoopProgress(60, 30, Len(X_test), 10, Len(X_test))
                               \o <<P(100)>>)

(***************************************************************************)
(* trainNeuralNetwork (modeling.ts:1052-1122)                              *)
(***************************************************************************)
\* a NaN input or target makes every hidden->output weight NaN;
\* sigmoid(NaN) > 0.5 is false: the prediction is 0
NeuralNetworkPredict(X_train, y_train, x) ==
  IF AnyNaNRow(X_train) \/ AnyNaN(y_train) \/ HasNaN(x) THEN IntVal(0) ELSE OpaqueVal

trainNeuralNetwork(X_train, y_train, X_test, y_test, featureNames) ==
  IF Len(X_train) = 0
  THEN Thrown("TypeError", <<>>)                 \* X_train[0].length
  ELSE IF Len(featureNames) = 0
  THEN Thrown("TypeError", <<>>)                 \* weightsInputHidden[0].map
  ELSE LET predict(x) == NeuralNetworkPredict(X_train, y_train, x)
       IN Returned("neural_network", Map(predict, X_test), TRUE, y_test,
                   LoopProgress(10, 80, 50, 5, 50) \o <<P(90), P(100)>>)

(***************************************************************************)
(* trainModel (modeling.ts:22-79)                                          *)
(***************************************************************************)
ModelTypes == {"linear_regression", "logistic_regression", "decision_tree",
               "random_forest", "gradient_boosting", "xgboost", "svm", "knn",
               "naive_bayes", "neural_network", "kmeans"}

\* Number(row[col]); a key the row does not have reads as undefined
CellNumber(row, col) == IF col \in DOMAIN row THEN Number(row[col]) ELSE NaN

Features(rows, cfg) ==
  [i \in 1..Len(rows) |->
     [j \in 1..Len(cfg.featureColumns) |-> CellNumber(rows[i], cfg.featureColumns[j])]]

Targets(rows, cfg) == [i \in 1..Len(rows) |-> CellNumber(rows[i], cfg.targetColumn)]

\* the switch on config.type
Dispatch(type, X_train, y_train, X_test, y_test, featureNames) ==
  CASE type = "linear_regression" ->
         [trainLinearRegression(X_train, y_train, X_test, y_test, featureNames)
            EXCEPT !.trainer = "trainLinearRegression"]
    [] type = "logistic_regression" ->
         [trainLogisticRegression(X_train, y_train, X_test, y_test, featureNames)
            EXCEPT !.trainer = "trainLogisticRegression"]
    [] type = "decision_tree" ->
         [trainDecisionTree(X_train, y_train, X_test, y_test, featureNames)
            EXCEPT !.trainer = "trainDecisionTree"]
    [] type = "random_forest" ->
         [trainRandomForest(X_train, y_train, X_test, y_test, featureNames)
            EXCEPT !.trainer = "trainRandomForest"]
    [] type = "gradient_boosting" ->
         [trainGradientBoosting(X_train, y_train, X_test, y_test, featureNames)
            EXCEPT !.trainer = "trainGradientBoosting"]
    [] type = "xgboost" ->
         [trainXGBoost(X_train, y_train, X_test, y_test, featureNames)
            EXCEPT !.trainer = "trainXGBoost"]
    [] type = "svm" ->
         [trainSVM(X_train, y_train, X_test, y_test, featureNames)
            EXCEPT !.trainer = "trainSVM"]
    [] type = "knn" ->
         [trainKNN(X_train, y_train, X_test, y_test, featureNames)
            EXCEPT !.trainer = "trainKNN"]
    [] type = "naive_bayes" ->
         [trainNaiveBayes(X_train, y_train, X_test, y_test, featureNames)
            EXCEPT !.trainer = "trainNaiveBayes"]
    [] type = "neural_network" ->
         [trainNeuralNetwork(X_train, y_train, X_test, y_test, featureNames)
            EXCEPT !.trainer = "trainNeuralNetwork"]
    [] type = "kmeans" ->
         [trainKMeans(X_train, X_test, featureNames)
            EXCEPT !.trainer = "trainKMeans"]
    [] OTHER -> Thrown("Unknown model type", <<>>)

\* trainModel(data, config, onProgress); `now` is Date.now() in shuffle.
\* Reading a column of a row that is undefined is a TypeError.
trainModel(d, cfg, now) ==
  LET split == splitData(d, cfg.testSize, cfg.randomSeed, now)
      rows == split.trainData \o split.testData
  IN IF \E i \in 1..Len(rows) : rows[i] = Undefined
     THEN Thrown("TypeError", <<>>)
     ELSE Dispatch(cfg.type,
                   Features(split.trainData, cfg), Targets(split.trainData, cfg),
                   Features(split.testData, cfg), Targets(split.testData, cfg),
                   cfg.featureColumns)

(***************************************************************************)
(* validation.ts: validatePreprocessing (12-73), validateModeling (75-211) *)
(*                                                                         *)
(* columnInfo is a sequence of [name, type, nullable].  A message is       *)
(* modelled by its fixed text, without the numbers interpolated into it.   *)
(***************************************************************************)
MinTrainingRows == 20

\* if (cond) list.push(msg)
Push(cond, msg) == IF cond THEN <<msg>> ELSE <<>>

RECURSIVE ColumnsOfType(_, _)
\* columnInfo.filter(c => c.type === type)
ColumnsOfType(colInfo, type) ==
  IF colInfo = <<>> THEN <<>>
  ELSE (IF Head(colInfo).type = type THEN <<Head(colInfo)>> ELSE <<>>)
         \o ColumnsOfType(Tail(colInfo), type)

\* row[col] is null, undefined or ''
IsMissing(row, col) == col \notin DOMAIN row \/ row[col].kind = "empty"

\* new Set(data.map(row => row[col])).size
UniqueRaw(d, col) ==
  Cardinality({IF col \in DOMAIN d[i] THEN d[i][col] ELSE [kind |-> "undefined", v |-> 0]
                 : i \in 1..Len(d)})

\* data.map(row => Number(row[col])).filter(v => !isNaN(v)), as a set
NumericValues(d, col) ==
  {CellNumber(d[i], col).v : i \in {k \in 1..Len(d) : ~CellNumber(d[k], col).nan}}

SetMax(S) == CHOOSE x \in S : \A y \in S : y <= x
SetMin(S) == CHOOSE x \in S : \A y \in S : x <= y

validatePreprocessing(d, colInfo, cfg) ==
  LET numericColumns == ColumnsOfType(colInfo, "number")
      stringColumns == ColumnsOfType(colInfo, "string")
      rowsWithMissing ==
        Cardinality({i \in 1..Len(d) :
                       \E c \in 1..Len(colInfo) : IsMissing(d[i], colInfo[c].name)})
      manyMissing == cfg.handleMissing = "remove" /\ 2 * rowsWithMissing > Len(d)
      categoricalWithManyValues ==
        {c \in 1..Len(stringColumns) : UniqueRaw(d, stringColumns[c].name) > 50}
      manyCategories == cfg.encodeCategories /\ categoricalWithManyValues # {}
      warnings ==
        Push(Len(d) < 10, "Dataset sangat kecil (< 10 rows).")
        \o Push(cfg.encodeCategories /\ Len(stringColumns) = 0,
                "Tidak ada kolom kategorikal untuk di-encode.")
        \o Push(manyMissing, "rows akan dihapus. Pertimbangkan imputation.")
        \o Push(manyCategories, "kolom kategorikal memiliki >50 unique values.")
      errors ==
        Push(cfg.normalization # "none" /\ Len(numericColumns) = 0,
             "Tidak ada kolom numerik untuk dinormalisasi.")
        \o Push(cfg.removeOutliers /\ Len(numericColumns) = 0,
                "Tidak ada kolom numerik untuk mendeteksi outliers.")
      suggestions ==
        Push(cfg.encodeCategories /\ Len(stringColumns) = 0,
             "Nonaktifkan Encode Categories jika tidak diperlukan.")
        \o Push(manyMissing, "Gunakan mean/median/mode imputation.")
        \o Push(cfg.removeOutliers, "Outlier removal dapat menghilangkan data penting.")
        \o Push(manyCategories, "Pertimbangkan untuk menghapus kolom high-cardinality.")
  IN [isValid |-> Len(errors) = 0, warnings |-> warnings,
      errors |-> errors, suggestions |-> suggestions]

\* the errors pushed by validateModeling after the minimum-rows check
\* ModelingErrors with the K-Means requirement counted over the selected
\* features instead of the number-typed columns
ModelingErrors_SelectedFeatures(d, colInfo, mType, target, feats) ==
  Push(mType # "kmeans" /\ target = "", "Pilih target column yang ingin diprediksi.")
  \o Push(Len(feats) = 0, "Pilih minimal 1 feature column untuk training.")
  \o Push(mType = "kmeans" /\ Len(feats) < 2,
          "K-Means membutuhkan minimal 2 numeric features untuk clustering.")

ModelingErrors(d, colInfo, mType, target, feats) ==
  Push(mType # "kmeans" /\ target = "", "Pilih target column yang ingin diprediksi.")
  \o Push(Len(feats) = 0, "Pilih minimal 1 feature column untuk training.")
  \o Push(mType = "kmeans" /\ Len(ColumnsOfType(colInfo, "number")) < 2,
          "K-Means membutuhkan minimal 2 numeric features untuk clustering.")

ModelingWarnings(d, colInfo, mType, target, feats) ==
  LET classifier == mType \in {"logistic_regression", "decision_tree", "naive_bayes"}
      treeBased == mType \in {"random_forest", "gradient_boosting", "xgboost"}
  IN Push(Len(d) < 100, "Dataset kecil. Model mungkin kurang akurat.")
     \o Push(Len(feats) = 1, "Hanya 1 feature digunakan.")
     \o Push(classifier /\ target # "" /\ UniqueRaw(d, target) > 10,
             "Target column memiliki banyak unique values.")
     \o Push(mType = "linear_regression" /\ target # ""
               /\ Cardinality(NumericValues(d, target)) < 10,
             "Target column hanya memiliki sedikit unique values.")
     \o Push(treeBased /\ Len(d) < 100, "Tree-based models membutuhkan lebih banyak data.")
     \o Push(treeBased /\ Len(feats) < 3, "Lebih efektif dengan banyak features (>3).")
     \o Push(mType = "svm" /\ Len(d) > 5000, "SVM lambat pada dataset besar.")
     \o Push(mType = "svm" /\ Len(feats) > 50, "SVM dengan banyak features.")
     \o Push(mType = "neural_network" /\ Len(d) < 500,
             "Neural network membutuhkan banyak data.")
     \o Push(mType = "knn" /\ Len(d) > 10000, "KNN lambat pada dataset besar.")
     \o Push(mType = "kmeans" /\ Len(d) < 30, "Dataset terlalu kecil untuk clustering.")
     \o Push((Len(d) * 20) \div 100 < 10, "Test set hanya sedikit rows.")

ModelingSuggestions(d, colInfo, mType, target, feats) ==
  LET classifier == mType \in {"logistic_regression", "decision_tree", "naive_bayes"}
      wideRange(col) ==
        LET values == NumericValues(d, col)
        IN values # {} /\ SetMax(values) - SetMin(values) > 1000
  IN Push(Len(feats) = 1, "Tambahkan lebih banyak features.")
     \o Push(classifier /\ target # "" /\ UniqueRaw(d, target) > 10,
             "Pertimbangkan regression jika target adalah nilai kontinu.")
     \o Push(classifier /\ target # "" /\ UniqueRaw(d, target) = 2,
             "Data cocok untuk binary classification (2 classes).")
     \o Push(mType = "linear_regression" /\ target # ""
               /\ Cardinality(NumericValues(d, target)) < 10,
             "Pertimbangkan classification model jika target adalah kategori.")
     \o Push(mType = "xgboost", "XGBoost menggunakan gradient boosting dengan regularization.")
     \o Push(mType = "neural_network", "Neural network mungkin overfit pada dataset kecil.")
     \o Push(mType = "knn" /\ \E j \in 1..Len(feats) : wideRange(feats[j]),
             "Normalisasi sangat penting untuk KNN.")
     \o Push(mType = "kmeans", "K-Means cocok untuk menemukan pola tersembunyi.")
     \o Push((Len(d) * 20) \div 100 < 10, "Gunakan lebih banyak data atau kurangi test size.")

\* validateModeling in which a warning also makes the result invalid
validateModeling_WarningsBlock(d, colInfo, mType, target, feats) ==
  IF Len(d) < MinTrainingRows
  THEN [isValid |-> FALSE, warnings |-> <<>>,
        errors |-> <<"Dataset terlalu kecil untuk training ML (minimum 20 rows diperlukan).">>,
        suggestions |-> <<>>]
  ELSE LET errors == ModelingErrors(d, colInfo, mType, target, feats)
           warnings == ModelingWarnings(d, colInfo, mType, target, feats)
       IN [isValid |-> Len(errors) = 0 /\ Len(warnings) = 0,
           warnings |-> warnings,
           errors |-> errors,
           suggestions |-> ModelingSuggestions(d, colInfo, mType, target, feats)]

validateModeling(d, colInfo, mType, target, feats) ==
  IF Len(d) < MinTrainingRows
  THEN [isValid |-> FALSE, warnings |-> <<>>,
        errors |-> <<"Dataset terlalu kecil untuk training ML (minimum 20 rows diperlukan).">>,
        suggestions |-> <<>>]
  ELSE LET errors == ModelingErrors(d, colInfo, mType, target, feats)
       IN [isValid |-> Len(errors) = 0,
           warnings |-> ModelingWarnings(d, colInfo, mType, target, feats),
           errors |-> errors,
           suggestions |-> ModelingSuggestions(d, colInfo, mType, target, feats)]

(***************************************************************************)
(* Preprocessing (validation.ts:289-480)                                   *)
(***************************************************************************)
SeqRange(s) == {s[k] : k \in 1..Len(s)}

FloatCell(f) == [kind |-> "float", v |-> 0, f |-> f]
TextA == TextCell
TextB == [kind |-> "text", v |-> 1]

\* row[col]
CellOf(row, col) == IF col \in DOMAIN row THEN row[col] ELSE UndefinedCell

\* Number(value), in floating point
ToNumber(cell) ==
  CASE cell.kind \in {"num", "bool"} -> FInt(cell.v)
    [] cell.kind = "float" -> cell.f
    [] cell.kind \in {"empty", "null"} -> FZero
    [] OTHER -> FNaN

\* value === null || value === undefined
IsNullish(cell) == cell.kind \in {"null", "undefined"}
\* value === null || value === undefined || value === ''
IsBlank(cell) == IsNullish(cell) \/ cell.kind = "empty"

\* the key order of Object.keys for the rows of the model
KeyOrder == <<"x", "c">>

\* Object.keys(processedData[0] || {})
KeysOfFirst(d) ==
  IF Len(d) = 0 THEN <<>> ELSE SelectSeq(KeyOrder, LAMBDA col : col \in DOMAIN d[1])

\* the column is numeric when its first cell that is neither null nor
\* undefined converts to a number
IsNumericColumn(d, col) ==
  LET present == {i \in 1..Len(d) : ~IsNullish(CellOf(d[i], col))}
  IN /\ present # {}
     /\ ToNumber(CellOf(d[CHOOSE i \in present : \A j \in present : i <= j], col)).k # "nan"

\* data.map(row => Number(row[col])).filter(v => !isNaN(v))
ColumnNumbers(d, col) ==
  SelectSeq([i \in 1..Len(d) |-> ToNumber(CellOf(d[i], col))], LAMBDA f : f.k # "nan")

\* data.map(row => row[col]).filter(v => v !== null && v !== undefined && v !== '')
ColumnFilled(d, col) ==
  SelectSeq([i \in 1..Len(d) |-> CellOf(d[i], col)], LAMBDA c : ~IsBlank(c))

RECURSIVE FSumFrom(_, _, _)
\* values.reduce((a, b) => a + b, acc), from position i on
FSumFrom(values, acc, i) ==
  IF i > Len(values) THEN acc ELSE FSumFrom(values, FAdd(acc, values[i]), i + 1)

FSum(values) == FSumFrom(values, FZero, 1)

\* [...values].sort((a, b) => a - b) for NaN-free values
SortNumbers(values) ==
  LET before(i, l) == FLt(values[i], values[l]) \/ (values[i] = values[l] /\ i < l)
      rank == [l \in 1..Len(values) |-> Cardinality({i \in 1..Len(values) : before(i, l)})]
  IN [r \in 1..Len(values) |-> values[CHOOSE l \in 1..Len(values) : rank[l] = r - 1]]

\* mode(values) for a non-empty list: the first key of the largest count
mode(values) ==
  LET count == [i \in 1..Len(values) |->
                  Cardinality({j \in 1..Len(values) : values[j] = values[i]})]
  IN values[CHOOSE i \in 1..Len(values) :
              /\ \A j \in 1..Len(values) : count[j] <= count[i]
              /\ \A j \in 1..(i - 1) : count[j] < count[i]]

\* the value handleMissingValues writes into the blank cells of a numeric column
NumericFill(values, method) ==
  CASE method = "mean" -> FDiv(FSum(values), FInt(Len(values)))
    [] method = "median" -> SortNumbers(values)[(Len(values) \div 2) + 1]
    [] OTHER -> mode(values)

\* handleMissingValues without the pass over the string columns
handleMissingValues_NumericOnly(d, numericCols, stringCols, method) ==
  LET numbers == [col \in SeqRange(numericCols) |-> ColumnNumbers(d, col)]
      filled == [col \in SeqRange(stringCols) |-> ColumnFilled(d, col)]
      numFill == [col \in SeqRange(numericCols) |->
                    IF Len(numbers[col]) = 0 THEN FNaN
                    ELSE NumericFill(numbers[col], method)]
      strFill == [col \in SeqRange(stringCols) |->
                    IF Len(filled[col]) = 0 THEN UndefinedCell ELSE mode(filled[col])]
      fix(row, col) ==
        LET cell == CellOf(row, col)
        IN IF col \in SeqRange(numericCols)
           THEN IF Len(numbers[col]) > 0 /\ (IsBlank(cell) \/ ToNumber(cell).k = "nan")
                THEN FloatCell(numFill[col]) ELSE cell
           ELSE cell
      touched(row, col) ==
        col \in DOMAIN row \/ fix(row, col) # UndefinedCell
  IN [i \in 1..Len(d) |->
        [col \in {c \in DOMAIN d[i] \cup SeqRange(numericCols) \cup SeqRange(stringCols) :
                    touched(d[i], c)} |->
           IF col \in SeqRange(numericCols) \cup SeqRange(stringCols)
           THEN fix(d[i], col) ELSE d[i][col]]]

handleMissingValues(d, numericCols, stringCols, method) ==
  LET numbers == [col \in SeqRange(numericCols) |-> ColumnNumbers(d, col)]
      filled == [col \in SeqRange(stringCols) |-> ColumnFilled(d, col)]
      numFill == [col \in SeqRange(numericCols) |->
                    IF Len(numbers[col]) = 0 THEN FNaN
                    ELSE NumericFill(numbers[col], method)]
      strFill == [col \in SeqRange(stringCols) |->
                    IF Len(filled[col]) = 0 THEN UndefinedCell ELSE mode(filled[col])]
      fix(row, col) ==
        LET cell == CellOf(row, col)
        IN IF col \in SeqRange(numericCols)
           THEN IF Len(numbers[col]) > 0 /\ (IsBlank(cell) \/ ToNumber(cell).k = "nan")
                THEN FloatCell(numFill[col]) ELSE cell
           ELSE IF Len(filled[col]) > 0 /\ IsBlank(cell) THEN strFill[col] ELSE cell
      touched(row, col) ==
        col \in DOMAIN row \/ fix(row, col) # UndefinedCell
  IN [i \in 1..Len(d) |->
        [col \in {c \in DOMAIN d[i] \cup SeqRange(numericCols) \cup SeqRange(stringCols) :
                    touched(d[i], c)} |->
           IF col \in SeqRange(numericCols) \cup SeqRange(stringCols)
           THEN fix(d[i], col) ELSE d[i][col]]]

\* sorted[Math.floor(sorted.length * 0.25)] and sorted[Math.floor(sorted.length * 0.75)]
LowerQuartile(sorted) == sorted[(Len(sorted) \div 4) + 1]
UpperQuartile(sorted) == sorted[((3 * Len(sorted)) \div 4) + 1]

\* the literal 1.5
OneAndHalf == Round(3, 0 - 1)

\* q1 - 1.5 * iqr and q3 + 1.5 * iqr
LowerBound(q1, q3) == FSub(q1, FMul(OneAndHalf, FSub(q3, q1)))
UpperBound(q1, q3) == FAdd(q3, FMul(OneAndHalf, FSub(q3, q1)))

removeOutliersFromData(d, numericCols) ==
  LET sorted == [col \in SeqRange(numericCols) |-> SortNumbers(ColumnNumbers(d, col))]
      keep(row, col) ==
        LET value == ToNumber(CellOf(row, col))
            q1 == LowerQuartile(sorted[col])
            q3 == UpperQuartile(sorted[col])
        IN \/ value.k = "nan"
           \/ /\ FLeq(LowerBound(q1, q3), value)
              /\ FLeq(value, UpperBound(q1, q3))
  IN SelectSeq(d, LAMBDA row : \A col \in SeqRange(numericCols) : keep(row, col))

RECURSIVE UniqueFrom(_, _, _)
\* Array.from(new Set(values)): the values in the order of their first occurrence
UniqueFrom(values, acc, i) ==
  IF i > Len(values) THEN acc
  ELSE UniqueFrom(values,
                  IF values[i] \in SeqRange(acc) THEN acc ELSE Append(acc, values[i]),
                  i + 1)

\* the position of a value in a duplicate-free list, counted from 0
IndexOf(values, x) == (CHOOSE k \in 1..Len(values) : values[k] = x) - 1

\* encodings[col] is kept as the list of its keys; the code of a key is its position
encodeCategorialFeatures(d, stringCols) ==
  LET keys == [col \in SeqRange(stringCols) |->
                 UniqueFrom(SelectSeq([i \in 1..Len(d) |-> CellOf(d[i], col)],
                                      LAMBDA c : ~IsNullish(c)), <<>>, 1)]
  IN [data |-> [i \in 1..Len(d) |->
                  [col \in DOMAIN d[i] |->
                     IF col \in SeqRange(stringCols) /\ ~IsNullish(d[i][col])
                     THEN NumCell(IndexOf(keys[col], d[i][col]))
                     ELSE d[i][col]]],
      encodings |-> keys]

RECURSIVE FMinFrom(_, _, _)
\* Math.min(...values)
FMinFrom(values, acc, i) ==
  IF i > Len(values) THEN acc
  ELSE FMinFrom(values, IF FLt(values[i], acc) THEN values[i] ELSE acc, i + 1)

RECURSIVE FMaxFrom(_, _, _)
\* Math.max(...values)
FMaxFrom(values, acc, i) ==
  IF i > Len(values) THEN acc
  ELSE FMaxFrom(values, IF FLt(acc, values[i]) THEN values[i] ELSE acc, i + 1)

RECURSIVE SquaresFrom(_, _, _, _)
\* values.reduce((sum, val) => sum + Math.pow(val - mean, 2), acc)
SquaresFrom(values, mean, acc, i) ==
  IF i > Len(values) THEN acc
  ELSE SquaresFrom(values, mean,
                   FAdd(acc, FMul(FSub(values[i], mean), FSub(values[i], mean))), i + 1)

\* { min, max, mean, std } of a non-empty list of numbers
ScalingParams(values) ==
  LET mean == FDiv(FSum(values), FInt(Len(values)))
  IN [min |-> FMinFrom(values, values[1], 2),
      max |-> FMaxFrom(values, values[1], 2),
      mean |-> mean,
      std |-> FSqrt(FDiv(SquaresFrom(values, mean, FZero, 1), FInt(Len(values))))]

\* max > min ? (value - min) / (max - min) : 0
MinMaxScale(value, q) ==
  IF FLt(q.min, q.max) THEN FDiv(FSub(value, q.min), FSub(q.max, q.min)) ELSE FZero

\* std > 0 ? (value - mean) / std : 0
ZScoreScale(value, q) ==
  IF FLt(FZero, q.std) THEN FDiv(FSub(value, q.mean), q.std) ELSE FZero

normalizeNumericFeatures(d, numericCols, method) ==
  LET scaled == {col \in SeqRange(numericCols) : Len(ColumnNumbers(d, col)) > 0}
      params == [col \in scaled |-> ScalingParams(ColumnNumbers(d, col))]
      scale(row, col) ==
        LET value == ToNumber(CellOf(row, col))
        IN IF value.k = "nan" THEN CellOf(row, col)
           ELSE IF method = "minmax" THEN FloatCell(MinMaxScale(value, params[col]))
           ELSE FloatCell(ZScoreScale(value, params[col]))
  IN [data |-> [i \in 1..Len(d) |->
                  [col \in {c \in DOMAIN d[i] \cup scaled :
                              c \in DOMAIN d[i] \/ scale(d[i], c) # UndefinedCell} |->
                     IF col \in scaled THEN scale(d[i], col) ELSE d[i][col]]],
      params |-> params]

\* columns.every(col => row[col] !== null && row[col] !== undefined && row[col] !== '')
RowComplete(row, columns) == \A col \in SeqRange(columns) : ~IsBlank(CellOf(row, col))

\* preprocessData with `removedRows =` for `removedRows +=` at the outlier step
preprocessData_OutlierCountOnly(d, cfg) ==
  LET columns == KeysOfFirst(d)
      numericCols == SelectSeq(columns, LAMBDA col : IsNumericColumn(d, col))
      stringCols == SelectSeq(columns, LAMBDA col : ~IsNumericColumn(d, col))
      afterMissing ==
        IF cfg.handleMissing = "remove"
        THEN SelectSeq(d, LAMBDA row : RowComplete(row, columns))
        ELSE handleMissingValues(d, numericCols, stringCols, cfg.handleMissing)
      afterOutliers ==
        IF cfg.removeOutliers THEN removeOutliersFromData(afterMissing, numericCols)
        ELSE afterMissing
      encoded ==
        IF cfg.encodeCategories THEN encodeCategorialFeatures(afterOutliers, stringCols)
        ELSE [data |-> afterOutliers, encodings |-> <<>>]
      normalized ==
        IF cfg.normalization # "none"
        THEN normalizeNumericFeatures(encoded.data, numericCols, cfg.normalization)
        ELSE [data |-> encoded.data, params |-> <<>>]
  IN [data |-> normalized.data,
      encodings |-> encoded.encodings,
      scalingParams |-> normalized.params,
      removedRows |-> IF cfg.removeOutliers THEN Len(afterMissing) - Len(afterOutliers)
                      ELSE Len(d) - Len(afterMissing)]

preprocessData(d, cfg) ==
  LET columns == KeysOfFirst(d)
      numericCols == SelectSeq(columns, LAMBDA col : IsNumericColumn(d, col))
      stringCols == SelectSeq(columns, LAMBDA col : ~IsNumericColumn(d, col))
      afterMissing ==
        IF cfg.handleMissing = "remove"
        THEN SelectSeq(d, LAMBDA row : RowComplete(row, columns))
        ELSE handleMissingValues(d, numericCols, stringCols, cfg.handleMissing)
      afterOutliers ==
        IF cfg.removeOutliers THEN removeOutliersFromData(afterMissing, numericCols)
        ELSE afterMissing
      encoded ==
        IF cfg.encodeCategories THEN encodeCategorialFeatures(afterOutliers, stringCols)
        ELSE [data |-> afterOutliers, encodings |-> <<>>]
      normalized ==
        IF cfg.normalization # "none"
        THEN normalizeNumericFeatures(encoded.data, numericCols, cfg.normalization)
        ELSE [data |-> encoded.data, params |-> <<>>]
  IN [data |-> normalized.data,
      encodings |-> encoded.encodings,
      scalingParams |-> normalized.params,
      removedRows |-> (Len(d) - Len(afterMissing)) + (Len(afterMissing) - Len(afterOutliers))]

(***************************************************************************)
(* Column statistics (dataAnalysis.ts, part_003:28-108)                    *)
(***************************************************************************)
\* the first value of the largest count, null for an empty list
ColumnMode(values) ==
  IF Len(values) = 0 THEN NullCell
  ELSE LET count == [i \in 1..Len(values) |->
                       Cardinality({j \in 1..Len(values) : values[j] = values[i]})]
       IN values[CHOOSE i \in 1..Len(values) :
                   /\ \A j \in 1..Len(values) : count[j] <= count[i]
                   /\ \A j \in 1..(i - 1) : count[j] < count[i]]

\* analyzeColumn without numbers.sort
analyzeColumn_Unsorted(values, type) ==
  LET validValues == SelectSeq(values, LAMBDA v : ~IsBlank(v))
      base == [count |-> Len(values),
               nullCount |-> Len(values) - Len(validValues),
               uniqueCount |-> Cardinality(SeqRange(validValues)),
               mode |-> ColumnMode(validValues)]
      numbers == SelectSeq([i \in 1..Len(validValues) |-> ToNumber(validValues[i])],
                           LAMBDA n : n.k # "nan")
      mean == FDiv(FSum(numbers), FInt(Len(numbers)))
      median == numbers[(Len(numbers) \div 2) + 1]
  IN IF type = "number" /\ Len(numbers) > 0
     THEN [count |-> base.count, nullCount |-> base.nullCount,
           uniqueCount |-> base.uniqueCount, mode |-> base.mode,
           min |-> numbers[1],
           max |-> numbers[Len(numbers)],
           mean |-> mean,
           median |-> median,
           quartiles |-> <<LowerQuartile(numbers), median, UpperQuartile(numbers)>>,
           stdDev |-> FSqrt(FDiv(SquaresFrom(numbers, mean, FZero, 1), FInt(Len(numbers))))]
     ELSE base

analyzeColumn(values, type) ==
  LET validValues == SelectSeq(values, LAMBDA v : ~IsBlank(v))
      base == [count |-> Len(values),
               nullCount |-> Len(values) - Len(validValues),
               uniqueCount |-> Cardinality(SeqRange(validValues)),
               mode |-> ColumnMode(validValues)]
      numbers == SortNumbers(SelectSeq([i \in 1..Len(validValues) |-> ToNumber(validValues[i])],
                                       LAMBDA n : n.k # "nan"))
      mean == FDiv(FSum(numbers), FInt(Len(numbers)))
      median == numbers[(Len(numbers) \div 2) + 1]
  IN IF type = "number" /\ Len(numbers) > 0
     THEN [count |-> base.count, nullCount |-> base.nullCount,
           uniqueCount |-> base.uniqueCount, mode |-> base.mode,
           min |-> numbers[1],
           max |-> numbers[Len(numbers)],
           mean |-> mean,
           median |-> median,
           quartiles |-> <<LowerQuartile(numbers), median, UpperQuartile(numbers)>>,
           stdDev |-> FSqrt(FDiv(SquaresFrom(numbers, mean, FZero, 1), FInt(Len(numbers))))]
     ELSE base

RECURSIVE SumProductsFrom(_, _, _, _)
\* x.reduce((sum, xi, i) => sum + xi * y[i], acc)
SumProductsFrom(x, y, acc, i) ==
  IF i > Len(x) THEN acc
  ELSE SumProductsFrom(x, y, FAdd(acc, FMul(x[i], y[i])), i + 1)

\* n * sumX2 - sumX * sumX
Spread(x) ==
  FSub(FMul(FInt(Len(x)), SumProductsFrom(x, x, FZero, 1)), FMul(FSum(x), FSum(x)))

calculateCorrelation(x, y) ==
  IF Len(x) # Len(y) \/ Len(x) = 0 THEN FZero
  ELSE LET numerator == FSub(FMul(FInt(Len(x)), SumProductsFrom(x, y, FZero, 1)),
                             FMul(FSum(x), FSum(y)))
           denominator == FSqrt(FMul(Spread(x), Spread(y)))
       IN IF FEq(denominator, FZero) THEN FZero ELSE FDiv(numerator, denominator)

\* detectOutliers without the test v > upperBound
detectOutliers_LowerOnly(values) ==
  IF Len(values) < 4 THEN [count |-> 0, indices |-> <<>>]
  ELSE LET sorted == SortNumbers(values)
           q1 == LowerQuartile(sorted)
           q3 == UpperQuartile(sorted)
           outlierIndices ==
             SelectSeq([i \in 1..Len(values) |-> i - 1],
                       LAMBDA i : FLt(values[i + 1], LowerBound(q1, q3)))
       IN [count |-> Len(outlierIndices), indices |-> outlierIndices]

detectOutliers(values) ==
  IF Len(values) < 4 THEN [count |-> 0, indices |-> <<>>]
  ELSE LET sorted == SortNumbers(values)
           q1 == LowerQuartile(sorted)
           q3 == UpperQuartile(sorted)
           outlierIndices ==
             SelectSeq([i \in 1..Len(values) |-> i - 1],
                       LAMBDA i : \/ FLt(values[i + 1], LowerBound(q1, q3))
                                  \/ FLt(UpperBound(q1, q3), values[i + 1]))
       IN [count |-> Len(outlierIndices), indices |-> outlierIndices]

(***************************************************************************)
(* detectColumnType and detectTrend (dataAnalysis.ts:3-26, 110-125)        *)
(***************************************************************************)
\* the boolean true in a cell, the string 'true', and a string that
\* Date.parse reads but Number does not (such as '2024-01-15')
BoolCell == [kind |-> "bool", v |-> 1]
TrueText == [kind |-> "text", v |-> 2]
DateText == [kind |-> "text", v |-> 3]

\* Math.min(100, values.length)
SampleLimit == 100

\* the number of members of values[1..upTo] that satisfy Test
CountIn(values, upTo, Test(_)) == Cardinality({i \in 1..upTo : Test(values[i])})

\* typeof val === 'boolean' || val === 'true' || val === 'false'
IsBooleanValue(val) == val.kind = "bool" \/ val = TrueText
\* !isNaN(Number(val)) && val !== ''
IsNumberValue(val) == ToNumber(val).k # "nan" /\ val.kind # "empty"
\* !isNaN(Date.parse(String(val)))
IsDateValue(val) == val = DateText

\* count > sampleSize * 0.8, both whole numbers below 2^31
OverEightTenths(count, sampleSize) == 10 * count > 8 * sampleSize

detectColumnType(values) ==
  LET sampleSize == Min(SampleLimit, Len(values))
      booleanCount == CountIn(values, sampleSize,
                        LAMBDA val : ~IsBlank(val) /\ IsBooleanValue(val))
      numberCount == CountIn(values, sampleSize,
                        LAMBDA val : ~IsBlank(val) /\ ~IsBooleanValue(val)
                                     /\ IsNumberValue(val))
      dateCount == CountIn(values, sampleSize,
                        LAMBDA val : ~IsBlank(val) /\ ~IsBooleanValue(val)
                                     /\ ~IsNumberValue(val) /\ IsDateValue(val))
  IN IF OverEightTenths(booleanCount, sampleSize) THEN "boolean"
     ELSE IF OverEightTenths(numberCount, sampleSize) THEN "number"
     ELSE IF OverEightTenths(dateCount, sampleSize) THEN "date"
     ELSE "string"

\* the steps i (values[i] against values[i - 1]) that satisfy Step
StepsWhere(values, Step(_, _)) ==
  Cardinality({i \in 2..Len(values) : Step(values[i - 1], values[i])})

detectTrend(values) ==
  IF Len(values) < 3 THEN "stable"
  ELSE LET increases == StepsWhere(values, LAMBDA a, b : FLt(a, b))
           decreases == StepsWhere(values, LAMBDA a, b : FLt(b, a))
       IN \* threshold = values.length * 0.6
          IF 10 * increases > 6 * Len(values) THEN "increasing"
          ELSE IF 10 * decreases > 6 * Len(values) THEN "decreasing"
          ELSE "stable"

(***************************************************************************)
(* generateInsights, findCorrelations (dataAnalysis.ts:127-291) and        *)
(* buildCorrelationMatrix (CorrelationMatrix.tsx:98-115).  An insight is   *)
(* kept as its type, the fixed part of its title, the column(s) it names   *)
(* and its severity; the description text is not modelled.                 *)
(***************************************************************************)
\* data.map(row => row[col])
ColumnValues(d, col) == [i \in 1..Len(d) |-> CellOf(d[i], col)]

\* colInfo of handleDataUploaded (App.tsx:33-43)
UploadedColumnInfo(d) ==
  LET columns == KeysOfFirst(d)
  IN [k \in 1..Len(columns) |->
        [name |-> columns[k],
         type |-> detectColumnType(ColumnValues(d, columns[k])),
         nullable |-> \E i \in 1..Len(d) : IsBlank(CellOf(d[i], columns[k]))]]

\* stats of handleDataUploaded (App.tsx:45-49)
StatisticsOf(d, colInfo) ==
  [name \in {colInfo[k].name : k \in 1..Len(colInfo)} |->
     LET k == CHOOSE k \in 1..Len(colInfo) : colInfo[k].name = name
     IN analyzeColumn(ColumnValues(d, name), colInfo[k].type)]

Insight(type, title, cols, severity) ==
  [type |-> type, title |-> title, cols |-> cols, severity |-> severity]

\* Math.round(((totalCells - missingCells) / totalCells) * 100): NaN for an
\* empty table; the exact quotient rounds as the double does below 40 cells
calculateDataQuality(d, colInfo, statistics) ==
  LET totalCells == Len(d) * Len(colInfo)
      RECURSIVE Missing(_)
      Missing(k) == IF k = 0 THEN 0
                    ELSE Missing(k - 1) + statistics[colInfo[k].name].nullCount
      missingCells == Missing(Len(colInfo))
  IN IF totalCells = 0 THEN NaN
     ELSE Num((200 * (totalCells - missingCells) + totalCells) \div (2 * totalCells))

\* a value that `&&` takes for true: a number other than 0 and NaN
Truthy(f) == f.k # "nan" /\ f # FZero

\* the pushes of one pass of numericColumns.forEach
NumericColumnInsights(d, col, statistics) ==
  IF col \notin DOMAIN statistics THEN <<>>
  ELSE
  LET stats == statistics[col]
      values == ColumnNumbers(d, col)
      outliers == detectOutliers(values)
      trend == detectTrend(values)
      cv == FMul(FDiv(stats.stdDev, stats.mean), FInt(100))
      anomalies ==
        IF outliers.count > 0
        THEN <<Insight("outlier", "Anomalies Detected", <<col>>,
                       IF 10 * outliers.count > Len(values) THEN "high" ELSE "medium")>>
        ELSE <<>>
      trending ==
        IF trend # "stable"
        THEN <<Insight("trend", IF trend = "increasing" THEN "Upward Trend"
                                ELSE "Downward Trend", <<col>>, "medium")>>
        ELSE <<>>
      variability ==
        IF "stdDev" \in DOMAIN stats /\ Truthy(stats.stdDev) /\ Truthy(stats.mean)
        THEN IF FLt(FInt(75), cv)
             THEN <<Insight("trend", "Extreme Variability", <<col>>, "high")>>
             ELSE IF FLt(cv, FInt(5))
                  THEN <<Insight("trend", "Low Variability", <<col>>, "low")>>
                  ELSE <<>>
        ELSE <<>>
      missing ==
        IF 5 * stats.nullCount > Len(d)          \* nullCount > data.length * 0.2
        THEN <<Insight("outlier", "Significant Missing Data", <<col>>, "high")>>
        ELSE <<>>
      unique ==
        IF stats.uniqueCount = Len(d)
        THEN <<Insight("summary", "Contains Unique Values", <<col>>, "low")>>
        ELSE <<>>
  IN (IF Len(values) > 0 THEN anomalies \o trending \o variability ELSE <<>>)
     \o missing \o unique

\* the two value lists handed to calculateCorrelation for a pair of columns
PairValues(d, col1, col2) == <<ColumnNumbers(d, col1), ColumnNumbers(d, col2)>>

\* the pairs (i, j), i < j, in the order of the nested loops
ColumnPairs(n) ==
  LET RECURSIVE From(_, _)
      From(i, j) == IF i > n THEN <<>>
                    ELSE IF j > n THEN From(i + 1, i + 2)
                    ELSE <<(<<i, j>>)>> \o From(i, j + 1)
  IN From(1, 2)

\* correlations.sort((a, b) => Math.abs(b.value) - Math.abs(a.value))
RECURSIVE SortByStrength(_)
SortByStrength(cs) ==
  IF Len(cs) < 2 THEN cs
  ELSE LET rest == SortByStrength(Tail(cs))
           stronger == SelectSeq(rest, LAMBDA c : FLt(FAbs(Head(cs).value), FAbs(c.value)))
           others == SelectSeq(rest, LAMBDA c : ~FLt(FAbs(Head(cs).value), FAbs(c.value)))
       IN stronger \o <<Head(cs)>> \o others

findCorrelations(d, numericCols) ==
  LET pairs == ColumnPairs(Len(numericCols))
      Entry(p) ==
        LET col1 == numericCols[p[1]].name
            col2 == numericCols[p[2]].name
            passed == PairValues(d, col1, col2)
            correlation == calculateCorrelation(passed[1], passed[2])
        IN IF Len(passed[1]) > 2 /\ Len(passed[2]) > 2
              /\ FLt(FDiv(FInt(1), FInt(2)), FAbs(correlation))
           THEN <<[col1 |-> col1, col2 |-> col2, value |-> correlation]>>
           ELSE <<>>
      RECURSIVE Collect(_)
      Collect(k) == IF k > Len(pairs) THEN <<>> ELSE Entry(pairs[k]) \o Collect(k + 1)
  IN SortByStrength(Collect(1))

\* the pushes of correlations.forEach
CorrelationInsights(correlations) ==
  LET Strong(c) == FLt(FDiv(FInt(7), FInt(10)), FAbs(c.value))
      strong == SelectSeq(correlations, Strong)
  IN [k \in 1..Len(strong) |->
        Insight("correlation",
                IF FLt(FZero, strong[k].value) THEN "Strong Positive Correlation Found"
                ELSE "Strong Negative Correlation Found",
                <<strong[k].col1, strong[k].col2>>,
                IF FLt(FDiv(FInt(9), FInt(10)), FAbs(strong[k].value))
                THEN "high" ELSE "medium")]

\* the pushes of stringColumns.forEach: uniqueCount < data.length * 0.05
StringColumnInsights(d, col, statistics) ==
  IF 20 * statistics[col].uniqueCount < Len(d)
  THEN <<Insight("summary", "Has Few Categories", <<col>>, "low")>>
  ELSE <<>>

RECURSIVE Flatten(_)
Flatten(lists) == IF lists = <<>> THEN <<>> ELSE Head(lists) \o Flatten(Tail(lists))

generateInsights(d, colInfo, statistics) ==
  LET numericCols == ColumnsOfType(colInfo, "number")
      stringColumns == ColumnsOfType(colInfo, "string")
      dataQualityScore == calculateDataQuality(d, colInfo, statistics)
      summary ==
        Insight("summary", "Intelligent Dataset Analysis", <<>>,
                IF ~IsNaN(dataQualityScore) /\ dataQualityScore.v > 80 THEN "low"
                ELSE IF ~IsNaN(dataQualityScore) /\ dataQualityScore.v > 60 THEN "medium"
                ELSE "high")
  IN <<summary>>
     \o Flatten([k \in 1..Len(numericCols) |->
                   NumericColumnInsights(d, numericCols[k].name, statistics)])
     \o (IF Len(numericCols) >= 2
         THEN CorrelationInsights(findCorrelations(d, numericCols)) ELSE <<>>)
     \o Flatten([k \in 1..Len(stringColumns) |->
                   StringColumnInsights(d, stringColumns[k].name, statistics)])

\* matrix[i][j] of buildCorrelationMatrix
buildCorrelationMatrix(d, numericCols) ==
  [i \in 1..Len(numericCols) |->
     [j \in 1..Len(numericCols) |->
        IF i = j THEN FInt(1)
        ELSE LET passed == PairValues(d, numericCols[i].name, numericCols[j].name)
             IN calculateCorrelation(passed[1], passed[2])]]

(***************************************************************************)
(* The gradient descent of trainLinearRegression (modeling.ts:120-165),    *)
(* in floating point                                                       *)
(***************************************************************************)
\* const learningRate = 0.01
LearningRate == FDiv(FInt(1), FInt(100))
\* const iterations = 1000
Iterations == 1000

RECURSIVE DotFrom(_, _, _, _)
\* row.reduce((sum, x, i) => sum + x * weights[i], acc), from position i on
DotFrom(row, weights, acc, i) ==
  IF i > Len(row) THEN acc
  ELSE DotFrom(row, weights, FAdd(acc, FMul(row[i], weights[i])), i + 1)

RECURSIVE ErrorSumFrom(_, _, _, _, _)
\* X_with_bias.reduce((sum, row, i) => sum + errors[i] * row[j], acc)
ErrorSumFrom(X_with_bias, errors, j, acc, i) ==
  IF i > Len(X_with_bias) THEN acc
  ELSE ErrorSumFrom(X_with_bias, errors, j,
                    FAdd(acc, FMul(errors[i], X_with_bias[i][j])), i + 1)

\* X_train.map(row => [1, ...row])
WithBias(X) == [i \in 1..Len(X) |-> <<FInt(1)>> \o X[i]]

\* the weights after one more iteration of the loop
GradientStep(X_train, y_train, weights) ==
  LET X_with_bias == WithBias(X_train)
      errors == [i \in 1..Len(X_train) |->
                   FSub(DotFrom(X_with_bias[i], weights, FZero, 1), y_train[i])]
      gradient == [j \in 1..Len(weights) |->
                     FDiv(ErrorSumFrom(X_with_bias, errors, j, FZero, 1),
                          FInt(Len(X_train)))]
  IN [j \in 1..Len(weights) |-> FSub(weights[j], FMul(LearningRate, gradient[j]))]

\* featureNames.forEach((name, i) => featureImportance[name] = Math.abs(weights[i + 1]))
LinearImportance(featureNames, weights) ==
  [name \in SeqRange(featureNames) |->
     FAbs(weights[(CHOOSE i \in 1..Len(featureNames) :
                     /\ featureNames[i] = name
                     /\ \A j \in (i + 1)..Len(featureNames) : featureNames[j] # name) + 1])]

(***************************************************************************)
(* Parts of the state that a specification does not use stay as follows    *)
(***************************************************************************)
NoSplitArgs == [data |-> <<>>, testSize |-> 0, seed |-> NoSeed]
NoConfig == [type |-> "", targetColumn |-> "", featureColumns |-> <<>>,
             testSize |-> 0, randomSeed |-> NoSeed]
NoTrainArgs == [data |-> <<>>, config |-> NoConfig]
NotRun == [ran |-> FALSE, now |-> 0, out |-> Thrown("", <<>>)]
NoPreprocessingConfig == [normalization |-> "none", handleMissing |-> "remove",
                          encodeCategories |-> FALSE, removeOutliers |-> FALSE]
NoValidArgs == [fn |-> "", data |-> <<>>, columnInfo |-> <<>>, modelType |-> "",
                targetColumn |-> "", featureColumns |-> <<>>,
                config |-> NoPreprocessingConfig]
NotValidated == [ran |-> FALSE,
                 res |-> [isValid |-> FALSE, warnings |-> <<>>, errors |-> <<>>,
                          suggestions |-> <<>>]]
\* null where a TrainingResult is expected
Null == [null |-> TRUE]

\* preprocessData and the statistics not called yet
NoPreArgs == [data |-> <<>>, config |-> NoPreprocessingConfig]
NotPreprocessed == [called |-> FALSE]
NoStatArgs == [fn |-> "", x |-> <<>>, y |-> <<>>, type |-> ""]
NotComputed == [called |-> FALSE]

\* trainLinearRegression not entered
NoFit == [X_train |-> <<>>, y_train |-> <<>>, featureNames |-> <<>>, weights |-> <<>>,
          iter |-> 0, featureImportance |-> Null]
FitIdle == fit = NoFit

\* App not mounted
NoApp == [currentStep |-> ""]
AppIdle == app = NoApp

PreIdle == preArgs = NoPreArgs /\ preOut = NotPreprocessed
StatIdle == statArgs = NoStatArgs /\ statOut = NotComputed
SplitIdle == splitArgs = NoSplitArgs /\ splitRuns = <<>>
TrainIdle == trainArgs = NoTrainArgs /\ trainOut = NotRun
ValidIdle == validArgs = NoValidArgs /\ validOut = NotValidated
UIIdle ==
  /\ data = <<>> /\ columnInfo = <<>> /\ datasetId = FALSE
  /\ modelType = "" /\ targetColumn = "" /\ featureColumns = <<>>
  /\ testSize = 0 /\ isTraining = FALSE /\ progress = P(0)
  /\ result = Null /\ pc = "idle" /\ config = NoConfig /\ pending = Null
  /\ alerts = <<>> /\ lastClick = "" /\ edits = 0 /\ uncaught = 0

\* Date.now() is read by shuffle only when the seed is absent or 0
Falsy(seed) == seed = NoSeed \/ seed[1] = 0
Clock(seed) == IF Falsy(seed) THEN NowValues ELSE {0}

(***************************************************************************)
(* SplitSpec: two invocations of splitData with the same arguments         *)
(***************************************************************************)
SplitInit ==
  /\ \E n \in 0..MaxSplitRows, pct \in TestSizes, seed \in Seeds :
       splitArgs = [data |-> Dataset(n, 0, "a"), testSize |-> pct, seed |-> seed]
  /\ splitRuns = <<>>
  /\ TrainIdle /\ ValidIdle /\ UIIdle /\ PreIdle /\ StatIdle /\ FitIdle /\ AppIdle

SplitData ==
  /\ Len(splitRuns) < 2
  /\ \E now \in Clock(splitArgs.seed) :
       splitRuns' = Append(splitRuns,
                      splitData(splitArgs.data, splitArgs.testSize, splitArgs.seed, now))
  /\ UNCHANGED <<splitArgs, trainVars, validVars, uiVars, preVars, statVars, fitVars, appVars>>

SplitNext == SplitData

SplitSpec == SplitInit /\ [][SplitNext]_vars

(***************************************************************************)
(* TrainSpec: one invocation of trainModel                                 *)
(***************************************************************************)
UnknownType == "unknown_model"
FeatureChoices == {<<>>, <<"a">>, <<"a", "b">>}
TrainSeeds == {NoSeed, <<42>>, <<-7>>}

TrainInit ==
  /\ \E n \in 0..MaxTrainRows, badCol \in {"a", "y"},
        type \in ModelTypes \cup {UnknownType}, feats \in FeatureChoices,
        pct \in TestSizes, seed \in TrainSeeds :
       \E badRow \in {0, 1, n} :
         trainArgs = [data |-> Dataset(n, badRow, badCol),
                      config |-> [type |-> type,
                                  targetColumn |-> IF type = "kmeans" THEN "" ELSE "y",
                                  featureColumns |-> feats,
                                  testSize |-> pct, randomSeed |-> seed]]
  /\ trainOut = NotRun
  /\ SplitIdle /\ ValidIdle /\ UIIdle /\ PreIdle /\ StatIdle /\ FitIdle /\ AppIdle

TrainModel ==
  /\ ~trainOut.ran
  /\ \E now \in Clock(trainArgs.config.randomSeed) :
       trainOut' = [ran |-> TRUE, now |-> now,
                    out |-> trainModel(trainArgs.data, trainArgs.config, now)]
  /\ UNCHANGED <<trainArgs, splitVars, validVars, uiVars, preVars, statVars, fitVars, appVars>>

TrainNext == TrainModel

TrainSpec == TrainInit /\ [][TrainNext]_vars

(***************************************************************************)
(* ValidSpec: one invocation of validateModeling or validatePreprocessing  *)
(***************************************************************************)
\* the columnInfo in which exactly the columns of `numeric` are numbers
ColumnInfoOf(numeric) ==
  [c \in 1..Len(Columns) |->
     [name |-> Columns[c],
      type |-> IF Columns[c] \in numeric THEN "number" ELSE "string",
      nullable |-> FALSE]]

NumericChoices == {{}, {"a"}, {"a", "b", "y"}}

\* Dataset(n, 0, "a") whose first `holes` rows have an empty cell in column b
DatasetWithHoles(n, holes) ==
  [i \in 1..n |-> IF i <= holes THEN [CleanRow(i) EXCEPT !.b = EmptyCell]
                  ELSE CleanRow(i)]

ValidRows == {0} \cup ((MinTrainingRows - 2)..MaxValidRows)

ValidInit ==
  /\ \/ \E n \in ValidRows, numeric \in NumericChoices,
           type \in ModelTypes \cup {UnknownType}, target \in {"", "y"},
           feats \in FeatureChoices :
          validArgs = [fn |-> "validateModeling", data |-> Dataset(n, 0, "a"),
                       columnInfo |-> ColumnInfoOf(numeric), modelType |-> type,
                       targetColumn |-> target, featureColumns |-> feats,
                       config |-> NoPreprocessingConfig]
     \/ \E n \in ValidRows, numeric \in NumericChoices, holes \in {0, 1},
           normalization \in {"none", "minmax", "zscore"},
           handleMissing \in {"remove", "mean", "median", "mode"},
           encodeCategories \in BOOLEAN, removeOutliers \in BOOLEAN :
          validArgs = [fn |-> "validatePreprocessing",
                       data |-> DatasetWithHoles(n, holes * n),
                       columnInfo |-> ColumnInfoOf(numeric), modelType |-> "",
                       targetColumn |-> "", featureColumns |-> <<>>,
                       config |-> [normalization |-> normalization,
                                   handleMissing |-> handleMissing,
                                   encodeCategories |-> encodeCategories,
                                   removeOutliers |-> removeOutliers]]
  /\ validOut = NotValidated
  /\ SplitIdle /\ TrainIdle /\ UIIdle /\ PreIdle /\ StatIdle /\ FitIdle /\ AppIdle

ValidateModeling ==
  /\ ~validOut.ran
  /\ validArgs.fn = "validateModeling"
  /\ validOut' = [ran |-> TRUE,
                  res |-> validateModeling(validArgs.data, validArgs.columnInfo,
                                           validArgs.modelType, validArgs.targetColumn,
                                           validArgs.featureColumns)]
  /\ UNCHANGED <<validArgs, splitVars, trainVars, uiVars, preVars, statVars, fitVars, appVars>>

ValidatePreprocessing ==
  /\ ~validOut.ran
  /\ validArgs.fn = "validatePreprocessing"
  /\ validOut' = [ran |-> TRUE,
                  res |-> validatePreprocessing(validArgs.data, validArgs.columnInfo,
                                                validArgs.config)]
  /\ UNCHANGED <<validArgs, splitVars, trainVars, uiVars, preVars, statVars, fitVars, appVars>>

ValidNext == ValidateModeling \/ ValidatePreprocessing

ValidSpec == ValidInit /\ [][ValidNext]_vars

(***************************************************************************)
(* PreSpec: one invocation of preprocessData.  The rows have a column x of *)
(* numbers with holes and a column c of categories with holes.             *)
(***************************************************************************)
PreRows ==
  { [x |-> NumCell(1), c |-> TextA],
    [x |-> NumCell(3), c |-> TextB],
    [x |-> NullCell, c |-> TextA],
    [x |-> NumCell(11), c |-> EmptyCell],
    [x |-> NumCell(0 - 100), c |-> NullCell] }

\* four rows of which the first holds an outlier in x
OutlierRows ==
  << [x |-> NumCell(0 - 100), c |-> TextA],
     [x |-> NumCell(1), c |-> TextA],
     [x |-> NumCell(1), c |-> TextB],
     [x |-> NumCell(3), c |-> TextB] >>

\* the four rows and a fifth with an empty category
OutlierAndBlankRows == Append(OutlierRows, [x |-> NumCell(1), c |-> EmptyCell])

PreData ==
  UNION {[1..n -> PreRows] : n \in 0..MaxPreRows} \cup {OutlierRows, OutlierAndBlankRows}

PreConfigs ==
  [normalization : {"none", "minmax", "zscore"},
   handleMissing : {"remove", "mean", "median", "mode"},
   encodeCategories : BOOLEAN,
   removeOutliers : BOOLEAN]

PreInit ==
  /\ preArgs \in [data : PreData, config : PreConfigs]
  /\ preOut = NotPreprocessed
  /\ SplitIdle /\ TrainIdle /\ ValidIdle /\ UIIdle /\ StatIdle /\ FitIdle /\ AppIdle

PreprocessData ==
  /\ preOut = NotPreprocessed
  /\ \E out \in {preprocessData(preArgs.data, preArgs.config)} : preOut' = out
  /\ UNCHANGED <<preArgs, splitVars, trainVars, validVars, uiVars, statVars, fitVars, appVars>>

PreNext == PreprocessData

PreSpec == PreInit /\ [][PreNext]_vars

(***************************************************************************)
(* StatSpec: one invocation of calculateCorrelation, detectOutliers or     *)
(* analyzeColumn                                                           *)
(***************************************************************************)
StatNumbers == {FInt(1), FInt(11), FInt(13)}
StatCells == {NumCell(1), NumCell(11), NumCell(13), NullCell, EmptyCell, TextA}

\* the lists of at most MaxStatLen members of a set
ListsOf(S) == UNION {[1..n -> S] : n \in 0..MaxStatLen}

\* the cells of the columns handed to detectColumnType
TypeCells == {NumCell(1), TextA, EmptyCell, NullCell, BoolCell, TrueText, DateText}

\* a column longer than the sample: 81 numbers, then 20 strings
LongColumn == [i \in 1..101 |-> IF i <= 81 THEN NumCell(1) ELSE TextA]

\* the rows of an uploaded table of two columns
StatRows == { [x |-> NumCell(1), c |-> TextA], [x |-> NumCell(11), c |-> TextB],
              [x |-> NumCell(13), c |-> NullCell], [x |-> NullCell, c |-> EmptyCell],
              [x |-> NumCell(1), c |-> NumCell(13)], [x |-> NumCell(11), c |-> NumCell(1)] }

\* six rows, both columns numbers by type, one string in column x
MixedRows ==
  [i \in 1..6 |-> [x |-> IF i = 6 THEN TextA ELSE NumCell(<<1, 11, 13, 1, 11>>[i]),
                   c |-> NumCell(<<1, 13, 11, 1, 13, 11>>[i])]]

\* six rows, one string in each column, in different rows
ShiftedRows ==
  [i \in 1..6 |-> [x |-> IF i = 6 THEN TextA ELSE NumCell(<<1, 11, 13, 1, 11>>[i]),
                   c |-> IF i = 1 THEN TextA ELSE NumCell(<<1, 13, 11, 1, 13, 11>>[i])]]

\* 21 rows: a running number and one category
ManyRows == [i \in 1..21 |-> [x |-> NumCell(i), c |-> TextA]]

\* the tables handed to handleDataUploaded: at least one row
UploadedData ==
  UNION {[1..n -> StatRows] : n \in 1..MaxStatLen} \cup {MixedRows, ShiftedRows, ManyRows}

\* 1, 2, ..., 9, 100
OneToNineAndHundred == [i \in 1..10 |-> IF i = 10 THEN FInt(100) ELSE FInt(i)]

StatInit ==
  /\ \/ /\ statArgs \in [fn : {"calculateCorrelation"}, x : ListsOf(StatNumbers),
                         y : ListsOf(StatNumbers), type : {""}]
        /\ Len(statArgs.y) \in {0, Len(statArgs.x)}
     \/ statArgs \in [fn : {"detectOutliers"},
                      x : ListsOf(StatNumbers) \cup {OneToNineAndHundred},
                      y : {<<>>}, type : {""}]
     \/ statArgs \in [fn : {"analyzeColumn"}, x : ListsOf(StatCells),
                      y : {<<>>}, type : {"number", "string"}]
     \/ statArgs \in [fn : {"detectColumnType"},
                      x : ListsOf(TypeCells) \cup {LongColumn},
                      y : {<<>>}, type : {""}]
     \/ statArgs \in [fn : {"detectTrend"}, x : ListsOf(StatNumbers),
                      y : {<<>>}, type : {""}]
     \/ \E d \in UploadedData :
          statArgs \in [fn : {"generateInsights", "CorrelationMatrix"}, x : {d},
                        y : {UploadedColumnInfo(d)}, type : {""}]
  /\ statOut = NotComputed
  /\ SplitIdle /\ TrainIdle /\ ValidIdle /\ UIIdle /\ PreIdle /\ FitIdle /\ AppIdle

CalculateCorrelation ==
  /\ statArgs.fn = "calculateCorrelation"
  /\ statOut = NotComputed
  /\ \E r \in {calculateCorrelation(statArgs.x, statArgs.y)} : statOut' = [r |-> r]
  /\ UNCHANGED <<statArgs, splitVars, trainVars, validVars, uiVars, preVars, fitVars, appVars>>

DetectOutliers ==
  /\ statArgs.fn = "detectOutliers"
  /\ statOut = NotComputed
  /\ \E out \in {detectOutliers(statArgs.x)} : statOut' = out
  /\ UNCHANGED <<statArgs, splitVars, trainVars, validVars, uiVars, preVars, fitVars, appVars>>

AnalyzeColumn ==
  /\ statArgs.fn = "analyzeColumn"
  /\ statOut = NotComputed
  /\ \E out \in {analyzeColumn(statArgs.x, statArgs.type)} : statOut' = out
  /\ UNCHANGED <<statArgs, splitVars, trainVars, validVars, uiVars, preVars, fitVars, appVars>>

DetectColumnType ==
  /\ statArgs.fn = "detectColumnType"
  /\ statOut = NotComputed
  /\ statOut' = [type |-> detectColumnType(statArgs.x)]
  /\ UNCHANGED <<statArgs, splitVars, trainVars, validVars, uiVars, preVars, fitVars, appVars>>

DetectTrend ==
  /\ statArgs.fn = "detectTrend"
  /\ statOut = NotComputed
  /\ statOut' = [trend |-> detectTrend(statArgs.x)]
  /\ UNCHANGED <<statArgs, splitVars, trainVars, validVars, uiVars, preVars, fitVars, appVars>>

\* generateInsights as handleDataUploaded calls it (App.tsx:45-51)
GenerateInsights ==
  /\ statArgs.fn = "generateInsights"
  /\ statOut = NotComputed
  /\ \E stats \in {StatisticsOf(statArgs.x, statArgs.y)} :
       \E out \in {generateInsights(statArgs.x, statArgs.y, stats)} :
         statOut' = [insights |-> out, statistics |-> stats]
  /\ UNCHANGED <<statArgs, splitVars, trainVars, validVars, uiVars, preVars, fitVars, appVars>>

\* the CorrelationMatrix component (CorrelationMatrix.tsx:10-17)
CorrelationMatrix ==
  /\ statArgs.fn = "CorrelationMatrix"
  /\ statOut = NotComputed
  /\ LET numericCols == ColumnsOfType(statArgs.y, "number")
     IN IF Len(numericCols) < 2
        THEN statOut' = [rendered |-> FALSE, matrix |-> <<>>]
        ELSE \E matrix \in {buildCorrelationMatrix(statArgs.x, numericCols)} :
               statOut' = [rendered |-> TRUE, matrix |-> matrix]
  /\ UNCHANGED <<statArgs, splitVars, trainVars, validVars, uiVars, preVars, fitVars, appVars>>

StatNext ==
  \/ CalculateCorrelation \/ DetectOutliers \/ AnalyzeColumn
  \/ DetectColumnType \/ DetectTrend \/ GenerateInsights \/ CorrelationMatrix

StatSpec == StatInit /\ [][StatNext]_vars

(***************************************************************************)
(* FitSpec: trainLinearRegression on one feature, one action per iteration *)
(* of its loop and one for the feature importance                          *)
(***************************************************************************)
FitFeatures == {FInt(1), FInt(100)}
FitTargets == {FInt(0), FInt(1)}

FitInit ==
  /\ \E n \in 1..MaxFitRows :
       \E X \in [1..n -> FitFeatures], y \in [1..n -> FitTargets] :
         fit = [X_train |-> [i \in 1..n |-> <<X[i]>>],
                y_train |-> y,
                featureNames |-> <<"a">>,
                weights |-> <<FZero, FZero>>,
                iter |-> 0,
                featureImportance |-> Null]
  /\ SplitIdle /\ TrainIdle /\ ValidIdle /\ UIIdle /\ PreIdle /\ StatIdle /\ AppIdle

GradientIteration ==
  /\ fit # NoFit
  /\ fit.iter < Iterations
  /\ \E w \in {GradientStep(fit.X_train, fit.y_train, fit.weights)} :
       fit' = [fit EXCEPT !.weights = w, !.iter = @ + 1]
  /\ UNCHANGED <<splitVars, trainVars, validVars, uiVars, preVars, statVars, appVars>>

ReturnImportance ==
  /\ fit # NoFit
  /\ fit.iter = Iterations
  /\ fit.featureImportance = Null
  /\ fit' = [fit EXCEPT !.featureImportance = LinearImportance(fit.featureNames, fit.weights)]
  /\ UNCHANGED <<splitVars, trainVars, validVars, uiVars, preVars, statVars, appVars>>

FitNext == GradientIteration \/ ReturnImportance

FitSpec == FitInit /\ [][FitNext]_vars

(***************************************************************************)
(* AppSpec: the steps of App (part_002:15-149).  A handler runs up to its  *)
(* next `await` in one action; the awaited call is a task that returns in  *)
(* a later action, in any order with the user's clicks and the other       *)
(* tasks.  columnInfo, statistics, insights and fileName are set with data *)
(* and cleared with it; they are not tracked.                              *)
(***************************************************************************)
\* the tables uploaded: four complete rows, and one row with a missing value
AppTables == {OutlierRows, << [x |-> NullCell, c |-> TextA] >>}

\* the configurations applied
AppConfigs ==
  { [normalization |-> "none", handleMissing |-> "remove",
     encodeCategories |-> FALSE, removeOutliers |-> TRUE],
    [normalization |-> "minmax", handleMissing |-> "mean",
     encodeCategories |-> TRUE, removeOutliers |-> FALSE] }

\* an awaited call; a training timer carries the data and datasetId of the
\* render in which 'Start Training' was clicked
Task(id, kind) == [id |-> id, kind |-> kind, data |-> <<>>, datasetId |-> <<>>]

AppInit ==
  /\ app = [currentStep |-> "upload", data |-> <<>>, originalData |-> <<>>,
            preprocessedData |-> Null, datasetId |-> <<>>,
            isAnalyzing |-> FALSE, isPreprocessing |-> FALSE,
            tasks |-> {}, handed |-> <<>>, alerts |-> 0,
            sinceReset |-> FALSE, events |-> 0]
  /\ SplitIdle /\ TrainIdle /\ ValidIdle /\ UIIdle /\ PreIdle /\ StatIdle /\ FitIdle

OthersUnchanged ==
  UNCHANGED <<splitVars, trainVars, validVars, uiVars, preVars, statVars, fitVars>>

\* handleDataUploaded up to the insert into 'datasets' (part_002:27-64);
\* DataUpload is on screen in the 'upload' step and passes non-empty tables
handleDataUploaded ==
  /\ app.currentStep = "upload"
  /\ app.events < MaxAppEvents
  /\ \E uploadedData \in AppTables :
       app' = [app EXCEPT !.isAnalyzing = TRUE,
                          !.data = uploadedData,
                          !.originalData = uploadedData,
                          !.sinceReset = FALSE,
                          !.events = @ + 1,
                          !.tasks = @ \cup {Task(app.events + 1, "insertDataset")}]
  /\ OthersUnchanged

\* setIsAnalyzing(false); setCurrentStep('analyze') (part_002:82-83)
UploadFinished(t) ==
  [app EXCEPT !.isAnalyzing = FALSE, !.currentStep = "analyze", !.tasks = @ \ {t}]

\* the insert into 'datasets' returns a row, returns an error, or throws
\* (part_002:66-80)
InsertDatasetReturns ==
  /\ \E t \in app.tasks :
       /\ t.kind = "insertDataset"
       /\ \/ app' = [app EXCEPT !.datasetId = <<t.id>>,
                                !.tasks = (@ \ {t}) \cup {Task(t.id, "insertAnalysis")}]
          \/ app' = UploadFinished(t)
  /\ OthersUnchanged

\* the insert into 'analysis_results' returns or throws (part_002:72-83)
InsertAnalysisReturns ==
  /\ \E t \in app.tasks :
       /\ t.kind = "insertAnalysis"
       /\ app' = UploadFinished(t)
  /\ OthersUnchanged

\* 'Continue to Preprocessing' (part_002:259-267)
ContinueToPreprocessing ==
  /\ app.currentStep = "analyze"
  /\ ~app.isAnalyzing
  /\ app.events < MaxAppEvents
  /\ app' = [app EXCEPT !.currentStep = "preprocess", !.events = @ + 1]
  /\ OthersUnchanged

\* handlePreprocess up to the insert into 'preprocessing_results', or to its
\* end when there is no datasetId (part_002:86-110); the panel is on screen
\* in the 'preprocess' step and its button is disabled while isPreprocessing
handlePreprocess ==
  /\ app.currentStep = "preprocess"
  /\ ~app.isPreprocessing
  /\ app.events < MaxAppEvents
  /\ \E cfg \in AppConfigs :
       \E res \in {preprocessData(app.originalData, cfg)} :
         IF app.datasetId # <<>>
         THEN app' = [app EXCEPT !.isPreprocessing = TRUE,
                                 !.preprocessedData = res,
                                 !.data = res.data,
                                 !.events = @ + 1,
                                 !.tasks = @ \cup {Task(app.events + 1, "insertPreprocessing")}]
         ELSE app' = [app EXCEPT !.isPreprocessing = FALSE,
                                 !.preprocessedData = res,
                                 !.data = res.data,
                                 !.events = @ + 1,
                                 !.currentStep = "model"]
  /\ OthersUnchanged

\* the insert into 'preprocessing_results' returns (setCurrentStep('model'))
\* or throws (alert); setIsPreprocessing(false) either way (part_002:103-109)
InsertPreprocessingReturns ==
  /\ \E t \in app.tasks :
       /\ t.kind = "insertPreprocessing"
       /\ \/ app' = [app EXCEPT !.currentStep = "model", !.isPreprocessing = FALSE,
                                !.tasks = @ \ {t}]
          \/ app' = [app EXCEPT !.alerts = 1, !.isPreprocessing = FALSE,
                                !.tasks = @ \ {t}]
  /\ OthersUnchanged

\* handleTrain up to its timer (part_002:112-118); ModelTraining is on
\* screen in the 'model' step
AppHandleTrain ==
  /\ app.currentStep = "model"
  /\ app.events < MaxAppEvents
  /\ app' = [app EXCEPT !.events = @ + 1,
                        !.tasks = @ \cup {[id |-> app.events + 1, kind |-> "trainTimer",
                                           data |-> app.data,
                                           datasetId |-> app.datasetId]}]
  /\ OthersUnchanged

\* the timer fires: trainModel(data, config, onProgress), then the insert
\* into 'ml_models' when there was a datasetId (part_002:115-134)
TrainTimerFires ==
  /\ \E t \in app.tasks :
       /\ t.kind = "trainTimer"
       /\ app' = [app EXCEPT !.handed = <<t.data>>,
                             !.tasks = (@ \ {t}) \cup
                                       (IF t.datasetId # <<>>
                                        THEN {Task(t.id, "insertModel")} ELSE {})]
  /\ OthersUnchanged

\* the insert into 'ml_models' returns or throws (part_002:120-134)
InsertModelReturns ==
  /\ \E t \in app.tasks :
       /\ t.kind = "insertModel"
       /\ app' = [app EXCEPT !.tasks = @ \ {t}]
  /\ OthersUnchanged

\* handleReset (part_002:139-149); 'New Analysis' is on screen while
\* data.length > 0 (part_002:192-210)
handleReset ==
  /\ Len(app.data) > 0
  /\ app.events < MaxAppEvents
  /\ app' = [app EXCEPT !.currentStep = "upload",
                        !.data = <<>>,
                        !.originalData = <<>>,
                        !.preprocessedData = Null,
                        !.datasetId = <<>>,
                        !.sinceReset = TRUE,
                        !.events = @ + 1]
  /\ OthersUnchanged

AppNext ==
  \/ handleDataUploaded \/ InsertDatasetReturns \/ InsertAnalysisReturns
  \/ ContinueToPreprocessing
  \/ handlePreprocess \/ InsertPreprocessingReturns
  \/ AppHandleTrain \/ TrainTimerFires \/ InsertModelReturns
  \/ handleReset

AppSpec == AppInit /\ [][AppNext]_vars

(***************************************************************************)
(* Spec: the training screen (ModelTraining) on top of App.handleTrain     *)
(***************************************************************************)
\* the values the test-size slider is moved to, in percent
UITestSizes == {10, 20, 40}

\* columnInfo.filter(c => c.type === 'number'), by name
numericColumns(colInfo) ==
  LET cols == ColumnsOfType(colInfo, "number")
  IN [k \in 1..Len(cols) |-> cols[k].name]

\* numericColumns[0]?.name || ''
InitialTarget(colInfo) ==
  IF Len(numericColumns(colInfo)) = 0 THEN "" ELSE numericColumns(colInfo)[1]


\* featureColumns.filter(c => c !== column)
Without(s, x) == SelectSeq(s, LAMBDA c : c # x)

\* validation with the target column the screen started with, as a memoised
\* value that misses the change of the target would be
validation_StaleTarget ==
  validateModeling(data, columnInfo, modelType, InitialTarget(columnInfo), featureColumns)

\* const validation = validateModeling(...), recomputed on every render
validation ==
  validateModeling(data, columnInfo, modelType, targetColumn, featureColumns)

\* disabled={isTraining || !validation.isValid}
StartDisabled == isTraining \/ ~validation.isValid

Init ==
  /\ \E n \in (MinTrainingRows - 1)..MaxUIRows, badRow \in {0, 1} :
       data = Dataset(n, badRow, "a")
  /\ columnInfo \in {ColumnInfoOf({"a", "b", "y"}), ColumnInfoOf({"a"})}
  /\ datasetId \in BOOLEAN
  /\ modelType = "linear_regression"
  /\ targetColumn = InitialTarget(columnInfo)
  /\ featureColumns = <<>>
  /\ testSize = 20
  /\ isTraining = FALSE /\ progress = P(0) /\ result = Null
  /\ pc = "idle" /\ config = NoConfig /\ pending = Null
  /\ alerts = <<>> /\ lastClick = "" /\ edits = 0 /\ uncaught = 0
  /\ SplitIdle /\ TrainIdle /\ ValidIdle /\ PreIdle /\ StatIdle /\ FitIdle /\ AppIdle

\* a model button, enabled while no training runs
SetModelType(type) ==
  /\ ~isTraining /\ edits < MaxEdits
  /\ modelType' = type
  /\ edits' = edits + 1
  /\ UNCHANGED <<data, columnInfo, datasetId, targetColumn, featureColumns, testSize,
                 isTraining, progress, result, pc, config, pending, alerts, lastClick,
                 uncaught, splitVars, trainVars, validVars, preVars, statVars, fitVars, appVars>>

\* the target select, rendered for every model but kmeans
SetTargetColumn(column) ==
  /\ ~isTraining /\ edits < MaxEdits
  /\ modelType # "kmeans"
  /\ column \in {""} \cup SeqRange(numericColumns(columnInfo))
  /\ targetColumn' = column
  /\ edits' = edits + 1
  /\ UNCHANGED <<data, columnInfo, datasetId, modelType, featureColumns, testSize,
                 isTraining, progress, result, pc, config, pending, alerts, lastClick,
                 uncaught, splitVars, trainVars, validVars, preVars, statVars, fitVars, appVars>>

\* a feature checkbox; the boxes are the numeric columns but the target
handleFeatureToggle(column) ==
  /\ ~isTraining /\ edits < MaxEdits
  /\ column \in SeqRange(numericColumns(columnInfo)) \ {targetColumn}
  /\ featureColumns' = IF column \in SeqRange(featureColumns)
                       THEN Without(featureColumns, column)
                       ELSE Append(featureColumns, column)
  /\ edits' = edits + 1
  /\ UNCHANGED <<data, columnInfo, datasetId, modelType, targetColumn, testSize,
                 isTraining, progress, result, pc, config, pending, alerts, lastClick,
                 uncaught, splitVars, trainVars, validVars, preVars, statVars, fitVars, appVars>>

\* the test-size slider
SetTestSize(pct) ==
  /\ ~isTraining /\ edits < MaxEdits
  /\ testSize' = pct
  /\ edits' = edits + 1
  /\ UNCHANGED <<data, columnInfo, datasetId, modelType, targetColumn, featureColumns,
                 isTraining, progress, result, pc, config, pending, alerts, lastClick,
                 uncaught, splitVars, trainVars, validVars, preVars, statVars, fitVars, appVars>>

\* ModelTraining.handleTrain up to its await; onTrain is App.handleTrain, which
\* up to its own await only arms the 100 ms timer
handleTrain ==
  IF ~validation.isValid
  THEN /\ alerts' = <<"Error: ">> \o validation.errors
       /\ lastClick' = "rejected"
       /\ UNCHANGED <<isTraining, progress, result, pc, config>>
  ELSE /\ isTraining' = TRUE
       /\ progress' = P(0)
       /\ result' = Null
       /\ config' = [type |-> modelType, targetColumn |-> targetColumn,
                     featureColumns |-> featureColumns, testSize |-> testSize,
                     randomSeed |-> <<42>>]
       /\ pc' = "timer"
       /\ lastClick' = "started"
       /\ UNCHANGED alerts

\* a click on 'Start Training'; a disabled button drops it
ClickStartTraining ==
  /\ IF StartDisabled
     THEN /\ lastClick' = "ignored"
          /\ UNCHANGED <<isTraining, progress, result, pc, config, alerts>>
     ELSE handleTrain
  /\ UNCHANGED <<data, columnInfo, datasetId, modelType, targetColumn, featureColumns,
                 testSize, pending, edits, uncaught, splitVars, trainVars, validVars, preVars, statVars, fitVars, appVars>>

\* the timer callback of App.handleTrain: trainModel runs to its end or to its
\* throw, calling setProgress on the way; a throw leaves the callback without
\* resolve() and nothing ever settles the promise handleTrain awaits
TimerFires ==
  /\ pc = "timer"
  /\ \E out \in {trainModel(data, config, 0)} :
        /\ progress' = IF Len(out.log) = 0 THEN progress ELSE out.log[Len(out.log)]
        /\ IF out.threw
           THEN /\ pc' = "hung"
                /\ uncaught' = uncaught + 1
                /\ UNCHANGED pending
           ELSE /\ pc' = IF datasetId THEN "saving" ELSE "resolved"
                /\ pending' = out
                /\ UNCHANGED uncaught
  /\ UNCHANGED <<data, columnInfo, datasetId, modelType, targetColumn, featureColumns,
                 testSize, isTraining, result, config, alerts, lastClick, edits,
                 splitVars, trainVars, validVars, preVars, statVars, fitVars, appVars>>

\* the insert into ml_models settles; its failure is only logged
SaveModel ==
  /\ pc = "saving"
  /\ pc' = "resolved"
  /\ UNCHANGED <<data, columnInfo, datasetId, modelType, targetColumn, featureColumns,
                 testSize, isTraining, progress, result, config, pending, alerts,
                 lastClick, edits, uncaught, splitVars, trainVars, validVars, preVars, statVars, fitVars, appVars>>

\* ModelTraining.handleTrain after its await: setResult, then finally
Resume ==
  /\ pc = "resolved"
  /\ result' = pending
  /\ isTraining' = FALSE
  /\ pending' = Null
  /\ pc' = "idle"
  /\ UNCHANGED <<data, columnInfo, datasetId, modelType, targetColumn, featureColumns,
                 testSize, progress, config, alerts, lastClick, edits, uncaught,
                 splitVars, trainVars, validVars, preVars, statVars, fitVars, appVars>>

Next ==
  \/ \E type \in ModelTypes : SetModelType(type)
  \/ \E column \in {""} \cup SeqRange(Columns) : SetTargetColumn(column)
  \/ \E column \in SeqRange(Columns) : handleFeatureToggle(column)
  \/ \E pct \in UITestSizes : SetTestSize(pct)
  \/ ClickStartTraining
  \/ TimerFires
  \/ SaveModel
  \/ Resume

Spec == Init /\ [][Next]_vars

(***************************************************************************)
(* Claims about splitData (SplitSpec)                                      *)
(***************************************************************************)

\* C1: two invocations of the split with the same data, testSize and
\* supplied integer seed return the same test and train partitions, in
\* the same row order.
C1_SplitDeterministic ==
  (Len(splitRuns) = 2 /\ splitArgs.seed # NoSeed) => splitRuns[1] = splitRuns[2]

(***************************************************************************)
(* Claims about trainModel (TrainSpec)                                     *)
(***************************************************************************)
\* the prediction rule of each trainer, applied to one test row
RowPrediction(type, X_train, y_train, centroids, x) ==
  CASE type = "linear_regression" -> LinearPredict(X_train, y_train, x)
    [] type = "logistic_regression" -> LogisticPredict(X_train, y_train, x)
    [] type = "decision_tree" -> MajorityLabel(y_train)
    [] type = "svm" -> SVMPredict(x)
    [] type = "knn" -> KNNPredict(X_train, y_train, x)
    [] type = "naive_bayes" -> NaiveBayesPredict(y_train, x)
    [] type = "neural_network" -> NeuralNetworkPredict(X_train, y_train, x)
    [] type = "kmeans" -> IntVal(KMeansPredict(x, centroids))
    [] OTHER -> OpaqueVal

\* C2: the result returned by trainModel has one prediction per row of the
\* test partition, floor(n * testSize) of them, each the trainer's
\* prediction for the test row of the same index; actualValues, when
\* present, holds the target of the test row of the same index.
C2_PredictionsAligned ==
  (trainOut.ran /\ ~trainOut.out.threw) =>
    LET cfg == trainArgs.config
        out == trainOut.out
        split == splitData(trainArgs.data, cfg.testSize, cfg.randomSeed, trainOut.now)
        testCount == (Len(trainArgs.data) * cfg.testSize) \div 100
        X_train == Features(split.trainData, cfg)
        y_train == Targets(split.trainData, cfg)
        X_test == Features(split.testData, cfg)
        centroids == IF cfg.type = "kmeans"
                     THEN KMeansCentroids(X_train, Min(3, Len(X_train)),
                                          Len(cfg.featureColumns))
                     ELSE <<>>
    IN /\ Len(split.testData) = testCount
       /\ Len(out.predictions) = testCount
       /\ \A i \in 1..testCount :
            out.predictions[i] = RowPrediction(cfg.type, X_train, y_train, centroids, X_test[i])
       /\ out.hasActual =>
            /\ Len(out.actualValues) = testCount
            /\ \A i \in 1..testCount :
                 out.actualValues[i] = CellNumber(split.testData[i], cfg.targetColumn)

\* a run that returned several predictions together with actualValues
C2_Witness ==
  /\ trainOut.ran /\ ~trainOut.out.threw
  /\ trainOut.out.hasActual
  /\ Len(trainOut.out.predictions) >= 2

\* C3: the values passed to onProgress never decrease and lie in
\* [0, 100]; the last one before the trainer returns is 100.
C3_ProgressMonotone ==
  trainOut.ran =>
    LET log == trainOut.out.log
    IN /\ \A i \in 1..Len(log) : PLeq(P(0), log[i]) /\ PLeq(log[i], P(100))
       /\ \A i \in 1..(Len(log) - 1) : PLeq(log[i], log[i + 1])
       /\ ~trainOut.out.threw => (log # <<>> /\ PEq(log[Len(log)], P(100)))

\* trainKNN returned after reporting progress inside its loop at the
\* test rows 0 and 10
C3_Witness ==
  /\ trainOut.ran /\ ~trainOut.out.threw
  /\ trainOut.out.trainer = "trainKNN"
  /\ Len(trainOut.out.log) >= 5

TrainerOf(type) ==
  CASE type = "linear_regression" -> "trainLinearRegression"
    [] type = "logistic_regression" -> "trainLogisticRegression"
    [] type = "decision_tree" -> "trainDecisionTree"
    [] type = "random_forest" -> "trainRandomForest"
    [] type = "gradient_boosting" -> "trainGradientBoosting"
    [] type = "xgboost" -> "trainXGBoost"
    [] type = "svm" -> "trainSVM"
    [] type = "knn" -> "trainKNN"
    [] type = "naive_bayes" -> "trainNaiveBayes"
    [] type = "neural_network" -> "trainNeuralNetwork"
    [] type = "kmeans" -> "trainKMeans"
    [] OTHER -> ""

\* C4: for a known config.type exactly the trainer of that type runs and a
\* returned result has modelType = config.type; for any other type no
\* trainer runs and trainModel fails with 'Unknown model type'.
C4_DispatchExactlyOne ==
  trainOut.ran =>
    IF trainArgs.config.type \in ModelTypes
    THEN /\ trainOut.out.trainer = TrainerOf(trainArgs.config.type)
         /\ ~trainOut.out.threw => trainOut.out.modelType = trainArgs.config.type
    ELSE /\ trainOut.out.threw
         /\ trainOut.out.trainer = ""
         /\ trainOut.out.error = "Unknown model type"

\* C8: no trainer throws on matrices with at least one train row, one test
\* row and one feature, whether or not cells are NaN.
C8_NoThrowOnNaN ==
  LET cfg == trainArgs.config
      split == splitData(trainArgs.data, cfg.testSize, cfg.randomSeed, trainOut.now)
      rows == split.trainData \o split.testData
  IN ( /\ trainOut.ran
       /\ cfg.type \in ModelTypes
       /\ Len(split.trainData) >= 1 /\ Len(split.testData) >= 1
       /\ Len(cfg.featureColumns) >= 1
       /\ \A i \in 1..Len(rows) : rows[i] # Undefined )
     => ~trainOut.out.threw

(***************************************************************************)
(* Claims about validation (ValidSpec)                                     *)
(***************************************************************************)
\* one of the configuration errors the documentation lists
ConfigError ==
  \/ validArgs.modelType \notin ModelTypes
  \/ Len(validArgs.featureColumns) = 0
  \/ validArgs.modelType # "kmeans" /\ validArgs.targetColumn = ""
  \/ Len(validArgs.data) < MinTrainingRows

\* C5: every configuration error (unknown model type, no feature column, no
\* target column for a model other than kmeans, fewer than 20 rows) makes
\* validateModeling return isValid = false with a non-empty errors list.
C5_ConfigErrorsReported ==
  (validOut.ran /\ validArgs.fn = "validateModeling" /\ ConfigError)
    => (~validOut.res.isValid /\ Len(validOut.res.errors) > 0)

\* C9: for validateModeling and validatePreprocessing alike, the result is
\* valid exactly when its errors list is empty, whatever warnings and
\* suggestions come with it.
C9_ValidIffNoErrors ==
  validOut.ran => (validOut.res.isValid <=> Len(validOut.res.errors) = 0)

\* C9 witness: validateModeling returned a valid result carrying warnings and
\* suggestions.
C9_Witness ==
  /\ validOut.ran /\ validArgs.fn = "validateModeling"
  /\ validOut.res.isValid
  /\ Len(validOut.res.warnings) > 0 /\ Len(validOut.res.suggestions) > 0

\* C10: for modelType kmeans and a column info with fewer than 2 number-typed
\* columns, validateModeling returns isValid = false with at least one error.
C10_KMeansNeedsTwoNumeric ==
  (/\ validOut.ran /\ validArgs.fn = "validateModeling"
   /\ validArgs.modelType = "kmeans"
   /\ Len(ColumnsOfType(validArgs.columnInfo, "number")) < 2)
    => (~validOut.res.isValid /\ Len(validOut.res.errors) > 0)

\* C10 witness: kmeans was validated on at least 20 rows with two selected
\* features while only one column is number-typed, so that the K-Means rule
\* is the only one that can reject the configuration.
C10_Witness ==
  /\ validOut.ran /\ validArgs.fn = "validateModeling"
  /\ validArgs.modelType = "kmeans"
  /\ Len(ColumnsOfType(validArgs.columnInfo, "number")) = 1
  /\ Len(validArgs.data) >= MinTrainingRows
  /\ Len(validArgs.featureColumns) = 2
  /\ validOut.res.errors
       = <<"K-Means membutuhkan minimal 2 numeric features untuk clustering.">>

(***************************************************************************)
(* Claims about the training screen (Spec)                                 *)
(***************************************************************************)
\* the selections on screen do not pass validateModeling
SelectionInvalid ==
  ~validateModeling(data, columnInfo, modelType, targetColumn, featureColumns).isValid

\* C6: a click on 'Start Training' while the selections are invalid never
\* starts a run: no config is built, no timer is armed, and isTraining,
\* progress and result keep their values.
C6_InvalidClickStartsNothing ==
  [][(SelectionInvalid /\ ClickStartTraining)
       => UNCHANGED <<isTraining, progress, result, pc, config, pending>>]_vars

\* C6 witness: after at least one selection change the button was clicked
\* while the selections were invalid.
C6_Witness ==
  /\ lastClick = "ignored" /\ edits > 0 /\ ~isTraining /\ SelectionInvalid

\* a step of the run is still to come: the timer is armed, the insert is in
\* flight, or the continuation of ModelTraining.handleTrain is queued
RunCanProceed == pc \in {"timer", "saving", "resolved"}

\* C7: a failure of the trainer is caught by the calling boundary and every
\* run that sets isTraining = true is followed by isTraining = false,
\* whether the trainer returns or throws.  isTraining is only reset by the
\* continuation of handleTrain, so the claim requires that a run which has no
\* step left to take has reset it and that no error escaped the boundary.
C7_TrainingEnds == ~RunCanProceed => (~isTraining /\ uncaught = 0)

\* C11: every ModelConfig the training screen hands to onTrain has a
\* featureColumns that is non-empty, holds no name twice and does not hold
\* the config's targetColumn.
C11_SubmittedFeaturesExcludeTarget ==
  config # NoConfig =>
    /\ Len(config.featureColumns) > 0
    /\ \A i, j \in 1..Len(config.featureColumns) :
         config.featureColumns[i] = config.featureColumns[j] => i = j
    /\ config.targetColumn \notin SeqRange(config.featureColumns)

(***************************************************************************)
(* Claims about preprocessData (PreSpec)                                   *)
(***************************************************************************)
\* the cells of a column that hold a value: not null, undefined or '', and
\* convertible to a number
PresentNumbers(d, col) ==
  SelectSeq([i \in 1..Len(d) |-> CellOf(d[i], col)],
            LAMBDA c : ~IsBlank(c) /\ ToNumber(c).k # "nan")

\* the mean of the present cells of a column
MeanOfPresent(d, col) ==
  LET present == PresentNumbers(d, col)
  IN FDiv(FSum([i \in 1..Len(present) |-> ToNumber(present[i])]), FInt(Len(present)))

\* the run filled the holes with the mean and did nothing else to the numbers
MeanFillOnly ==
  /\ preOut # NotPreprocessed
  /\ preArgs.config.handleMissing = "mean"
  /\ ~preArgs.config.removeOutliers
  /\ preArgs.config.normalization = "none"

\* C12: under the 'mean' strategy every missing cell of a numeric column is
\* replaced by the mean of the column's non-missing values only, so that the
\* column [1, null, 3] gets 2 in its hole.
C12_MeanOfNonMissing ==
  MeanFillOnly =>
    \A i \in 1..Len(preArgs.data) :
      (/\ IsBlank(preArgs.data[i].x)
       /\ IsNumericColumn(preArgs.data, "x")
       /\ Len(PresentNumbers(preArgs.data, "x")) > 0)
      => ToNumber(preOut.data[i].x) = MeanOfPresent(preArgs.data, "x")

\* every cell of the column holds the same number
ConstantColumn(d, col) ==
  /\ Len(d) > 0
  /\ \A i \in 1..Len(d) : d[i][col].kind = "num" /\ d[i][col] = d[1][col]

\* C20: scaling a numeric column whose values are all equal writes exactly 0
\* into every cell of it, under 'zscore' and under 'minmax', never NaN or an
\* infinity.
C20_ConstantColumnScalesToZero ==
  (/\ preOut # NotPreprocessed
   /\ preArgs.config.normalization # "none"
   /\ ConstantColumn(preArgs.data, "x"))
  => \A i \in 1..Len(preOut.data) : ToNumber(preOut.data[i].x) = FZero

(***************************************************************************)
(* Claims about the column statistics (StatSpec)                           *)
(***************************************************************************)
\* calculateCorrelation has returned
Correlated == statArgs.fn = "calculateCorrelation" /\ statOut # NotComputed

\* every member of the list is the same number
IsConstant(x) == \A i, j \in 1..Len(x) : x[i] = x[j]

\* C13: calculateCorrelation(x, y) = calculateCorrelation(y, x); the
\* correlation of a non-constant list with itself is exactly 1; the
\* correlation is 0 whenever x or y is constant.
C13_CorrelationSymmetricUnitZero ==
  Correlated =>
    /\ statOut.r = calculateCorrelation(statArgs.y, statArgs.x)
    /\ (statArgs.y = statArgs.x /\ ~IsConstant(statArgs.x)) => statOut.r = FInt(1)
    /\ (IsConstant(statArgs.x) \/ IsConstant(statArgs.y)) => statOut.r = FZero

\* C14: calculateCorrelation returns a number of [-1, 1], never NaN or an
\* infinity, and returns 0 for empty lists, lists of different lengths and a
\* zero denominator.
C14_CorrelationInRange ==
  Correlated =>
    /\ statOut.r.k = "fin"
    /\ FLeq(FInt(0 - 1), statOut.r) /\ FLeq(statOut.r, FInt(1))
    /\ (Len(statArgs.x) = 0 \/ Len(statArgs.x) # Len(statArgs.y)) => statOut.r = FZero

\* analyzeColumn has returned
Analyzed == statArgs.fn = "analyzeColumn" /\ statOut # NotComputed

\* the numbers of a list of cells, in ascending order
SortedNumbersOf(values) ==
  LET valid == SelectSeq(values, LAMBDA v : ~IsBlank(v))
  IN SortNumbers(SelectSeq([i \in 1..Len(valid) |-> ToNumber(valid[i])],
                           LAMBDA n : n.k # "nan"))

\* C15: analyzeColumn returns uniqueCount <= count and nullCount + (number
\* of non-missing values) = count; where it returns numeric statistics,
\* min <= Q1 <= Q2 <= Q3 <= max, the median is sorted[floor(n/2)], Q1 is
\* sorted[floor(0.25 n)] and Q3 is sorted[floor(0.75 n)].
C15_ColumnStatsOrdered ==
  Analyzed =>
    /\ statOut.uniqueCount <= statOut.count
    /\ statOut.nullCount + Len(SelectSeq(statArgs.x, LAMBDA v : ~IsBlank(v))) = statOut.count
    /\ statOut.count = Len(statArgs.x)
    /\ (statArgs.type = "number" /\ Len(SortedNumbersOf(statArgs.x)) > 0) =>
         LET sorted == SortedNumbersOf(statArgs.x)
             n == Len(sorted)
         IN /\ DOMAIN statOut = {"count", "nullCount", "uniqueCount", "mode", "min", "max",
                                 "mean", "median", "quartiles", "stdDev"}
            /\ FLeq(statOut.min, statOut.quartiles[1])
            /\ FLeq(statOut.quartiles[1], statOut.quartiles[2])
            /\ FLeq(statOut.quartiles[2], statOut.quartiles[3])
            /\ FLeq(statOut.quartiles[3], statOut.max)
            /\ statOut.median = sorted[(n \div 2) + 1]
            /\ statOut.quartiles[2] = statOut.median
            /\ statOut.quartiles[1] = sorted[(n \div 4) + 1]
            /\ statOut.quartiles[3] = sorted[((3 * n) \div 4) + 1]

\* C15 witness: a numeric column with a hole, given out of order, whose
\* quartiles are all different.
C15_Witness ==
  /\ Analyzed
  /\ statArgs.type = "number"
  /\ "quartiles" \in DOMAIN statOut
  /\ statOut.nullCount > 0
  /\ FLt(statOut.quartiles[1], statOut.quartiles[2])
  /\ FLt(statOut.quartiles[2], statOut.quartiles[3])
  /\ ToNumber(statArgs.x[1]) = statOut.max

\* detectOutliers has returned
OutliersDetected == statArgs.fn = "detectOutliers" /\ statOut # NotComputed

\* the positions (from 0) of the values below Q1 - 1.5 IQR or above Q3 + 1.5 IQR
OutsideFences(values) ==
  LET sorted == SortNumbers(values)
      q1 == sorted[(Len(sorted) \div 4) + 1]
      q3 == sorted[((3 * Len(sorted)) \div 4) + 1]
      reach == FMul(FDiv(FInt(3), FInt(2)), FSub(q3, q1))
  IN {i \in 0..(Len(values) - 1) :
        FLt(values[i + 1], FSub(q1, reach)) \/ FLt(FAdd(q3, reach), values[i + 1])}

\* C16: detectOutliers reports no outlier for fewer than 4 values; otherwise
\* indices holds, in the order of the input, exactly the positions of the
\* values below Q1 - 1.5 IQR or above Q3 + 1.5 IQR, and count is their number.
\* For [1, ..., 9, 100] only the position of 100 is reported.
C16_OutliersAreOutsideFences ==
  OutliersDetected =>
    /\ Len(statArgs.x) < 4 => statOut = [count |-> 0, indices |-> <<>>]
    /\ Len(statArgs.x) >= 4 =>
         /\ SeqRange(statOut.indices) = OutsideFences(statArgs.x)
         /\ \A i, j \in 1..Len(statOut.indices) :
              i < j => statOut.indices[i] < statOut.indices[j]
    /\ statOut.count = Len(statOut.indices)
    /\ statArgs.x = OneToNineAndHundred => statOut.indices = <<9>>

\* C16 witness: the list 1, ..., 9, 100 was examined and one value was flagged.
C16_Witness ==
  /\ OutliersDetected
  /\ statArgs.x = OneToNineAndHundred
  /\ statOut.count = 1

(***************************************************************************)
(* Claims about the feature importance (FitSpec)                           *)
(***************************************************************************)
\* C17: the featureImportance of a TrainingResult has exactly the configured
\* featureColumns as its keys and every weight in it is non-negative, for
\* training data without NaN.
C17_ImportanceKeyedAndNonNegative ==
  (fit # NoFit /\ fit.featureImportance # Null) =>
    /\ DOMAIN fit.featureImportance = SeqRange(fit.featureNames)
    /\ \A name \in DOMAIN fit.featureImportance :
         FLeq(FZero, fit.featureImportance[name])

(***************************************************************************)
(* Claims about the progress reports (TrainSpec) and the split (SplitSpec) *)
(***************************************************************************)
\* C18: every trainer that returns has called onProgress at least three
\* times: first with a value below 100, then at least once more, and last
\* with exactly 100.
C18_AtLeastThreeReports ==
  (trainOut.ran /\ ~trainOut.out.threw) =>
    /\ Len(trainOut.out.log) >= 3
    /\ ~PLeq(P(100), trainOut.out.log[1])
    /\ PEq(trainOut.out.log[Len(trainOut.out.log)], P(100))

\* C19: a call of splitData leaves its input as it was and returns
\* floor(n * testSize) rows as testData and the other rows as trainData,
\* testData followed by trainData being the shuffled order of the input.
C19_TestIsShuffledPrefix ==
  [][splitRuns' # splitRuns =>
       /\ splitArgs' = splitArgs
       /\ LET run == splitRuns'[Len(splitRuns')]
              n == Len(splitArgs.data)
              testCount == (n * splitArgs.testSize) \div 100
          IN /\ Len(run.testData) = testCount
             /\ Len(run.trainData) = n - testCount
             /\ \E now \in Clock(splitArgs.seed) :
                  run.testData \o run.trainData =
                    shuffle(splitArgs.data, splitArgs.seed, now)]_vars

\* C19 witness: a split into at least two test rows and two training rows
\* whose order is not the order of the input.
C19_Witness ==
  /\ Len(splitRuns) >= 1
  /\ Len(splitRuns[1].testData) >= 2
  /\ Len(splitRuns[1].trainData) >= 2
  /\ splitRuns[1].testData \o splitRuns[1].trainData # splitArgs.data

(***************************************************************************)
(* Claims about the analysis of an uploaded table                          *)
(***************************************************************************)
MatrixBuilt == statArgs.fn = "CorrelationMatrix" /\ statOut # NotComputed
InsightsGenerated == statArgs.fn = "generateInsights" /\ statOut # NotComputed

\* the values of the two columns in the rows where both convert to a number
AlignedPairValues(d, col1, col2) ==
  LET rows == SelectSeq([i \in 1..Len(d) |-> i],
                        LAMBDA i : /\ ToNumber(CellOf(d[i], col1)).k # "nan"
                                   /\ ToNumber(CellOf(d[i], col2)).k # "nan")
  IN << [k \in 1..Len(rows) |-> ToNumber(CellOf(d[rows[k]], col1))],
        [k \in 1..Len(rows) |-> ToNumber(CellOf(d[rows[k]], col2))] >>

\* C21: for every pair of numeric columns, in the correlation matrix and in
\* the insight generator, the two value lists handed to calculateCorrelation
\* hold exactly the rows in which both columns are numeric: a row is left
\* out when either value is not a number, so the lists have the same length
\* and stay aligned row by row.
C21_PairRowsAligned ==
  (MatrixBuilt \/ InsightsGenerated) =>
    LET numericCols == ColumnsOfType(statArgs.y, "number")
    IN \A i, j \in 1..Len(numericCols) :
         i # j =>
           PairValues(statArgs.x, numericCols[i].name, numericCols[j].name)
             = AlignedPairValues(statArgs.x, numericCols[i].name, numericCols[j].name)

TrendDetected == statArgs.fn = "detectTrend" /\ statOut # NotComputed

\* C22: for n >= 3 values detectTrend returns 'increasing' exactly when the
\* strictly increasing steps are more than 60% of the n - 1 steps,
\* 'decreasing' exactly when the strictly decreasing steps are more than 60%
\* of the n - 1 steps, and 'stable' otherwise; for n < 3 it returns 'stable'.
C22_TrendByShareOfSteps ==
  TrendDetected =>
    LET values == statArgs.x
        steps == Len(values) - 1
        increases == StepsWhere(values, LAMBDA a, b : FLt(a, b))
        decreases == StepsWhere(values, LAMBDA a, b : FLt(b, a))
    IN statOut.trend =
         IF Len(values) < 3 THEN "stable"
         ELSE IF 10 * increases > 6 * steps THEN "increasing"
         ELSE IF 10 * decreases > 6 * steps THEN "decreasing"
         ELSE "stable"

TypeDetected == statArgs.fn = "detectColumnType" /\ statOut # NotComputed

\* C23: detectColumnType looks at the first 100 values at most, skips the
\* empty and missing ones, and returns boolean, number or date (tried in
\* that order) exactly when the sampled values of that type are more than
\* 80% of the non-empty sampled values; otherwise it returns string.
C23_TypeByShareOfNonEmpty ==
  TypeDetected =>
    LET values == statArgs.x
        sampleSize == Min(SampleLimit, Len(values))
        nonEmpty == CountIn(values, sampleSize, LAMBDA val : ~IsBlank(val))
        booleans == CountIn(values, sampleSize,
                      LAMBDA val : ~IsBlank(val) /\ IsBooleanValue(val))
        numbers == CountIn(values, sampleSize,
                      LAMBDA val : ~IsBlank(val) /\ ~IsBooleanValue(val)
                                   /\ IsNumberValue(val))
        dates == CountIn(values, sampleSize,
                      LAMBDA val : ~IsBlank(val) /\ ~IsBooleanValue(val)
                                   /\ ~IsNumberValue(val) /\ IsDateValue(val))
    IN statOut.type =
         IF 10 * booleans > 8 * nonEmpty THEN "boolean"
         ELSE IF 10 * numbers > 8 * nonEmpty THEN "number"
         ELSE IF 10 * dates > 8 * nonEmpty THEN "date"
         ELSE "string"

\* the insight of the given title about the column is among the insights
HasInsight(insights, title, col) ==
  \E k \in 1..Len(insights) : insights[k].title = title /\ insights[k].cols = <<col>>

\* C24: generateInsights emits the high-severity missing-data insight for
\* every column, whatever its type, whose nullCount is more than 20% of the
\* row count, and for no other column.
C24_MissingDataForEveryColumn ==
  InsightsGenerated =>
    \A k \in 1..Len(statArgs.y) :
      LET col == statArgs.y[k].name
      IN HasInsight(statOut.insights, "Significant Missing Data", col)
           <=> 5 * statOut.statistics[col].nullCount > Len(statArgs.x)

\* C25: a string column gets the 'few categories' insight exactly when
\* 0 < uniqueCount < 5% of the row count; a string column without any
\* non-missing value (uniqueCount = 0) gets none.
C25_FewCategoriesNeedAValue ==
  InsightsGenerated =>
    \A k \in 1..Len(statArgs.y) :
      LET col == statArgs.y[k].name
          uniqueCount == statOut.statistics[col].uniqueCount
      IN statArgs.y[k].type = "string" =>
           (HasInsight(statOut.insights, "Has Few Categories", col)
              <=> (0 < uniqueCount /\ 20 * uniqueCount < Len(statArgs.x)))

(***************************************************************************)
(* Claims about preprocessData as a whole                                  *)
(***************************************************************************)
Preprocessed == preOut # NotPreprocessed

\* C26: with encodeCategories set, no encoding table of the result holds a
\* code for a missing value (null, undefined or the empty string), and every
\* encoded cell of the result carries the code of a value that is not
\* missing: the missing values are filled or their rows removed before the
\* encoding.
C26_NoCodeForMissing ==
  (Preprocessed /\ preArgs.config.encodeCategories) =>
    /\ \A col \in DOMAIN preOut.encodings :
         \A k \in 1..Len(preOut.encodings[col]) : ~IsBlank(preOut.encodings[col][k])
    /\ \A i \in 1..Len(preOut.data) :
         \A col \in DOMAIN preOut.encodings \cap DOMAIN preOut.data[i] :
           LET cell == preOut.data[i][col]
           IN \/ IsNullish(cell)
              \/ /\ cell.kind = "num"
                 /\ cell.v \in 0..(Len(preOut.encodings[col]) - 1)
                 /\ ~IsBlank(preOut.encodings[col][cell.v + 1])

\* C26 witness: a table with an empty or null category in a string column is
\* preprocessed with a fill method and encoded, and the cell that was
\* missing carries a code.
C26_Witness ==
  /\ Preprocessed
  /\ preArgs.config.encodeCategories
  /\ preArgs.config.handleMissing # "remove"
  /\ ~preArgs.config.removeOutliers
  /\ "c" \in DOMAIN preOut.encodings
  /\ \E i \in 1..Len(preArgs.data) :
       /\ IsBlank(preArgs.data[i].c)
       /\ preOut.data[i].c.kind = "num"

\* C30: preprocessData conserves rows: removedRows plus the rows of the
\* result is the number of input rows; rows go only in the 'remove' handling
\* of missing values and in the outlier removal; the input is left as it was.
C30_RowsConserved ==
  [][preOut' # preOut =>
       /\ preArgs' = preArgs
       /\ preOut'.removedRows + Len(preOut'.data) = Len(preArgs.data)
       /\ preOut'.removedRows >= 0
       /\ (preArgs.config.handleMissing # "remove" /\ ~preArgs.config.removeOutliers)
            => preOut'.removedRows = 0]_vars

\* C30 witness: one row went for a missing value and one as an outlier.
C30_Witness ==
  /\ Preprocessed
  /\ preArgs.data = OutlierAndBlankRows
  /\ preArgs.config.handleMissing = "remove"
  /\ preArgs.config.removeOutliers
  /\ preOut.removedRows = 2
  /\ Len(preOut.data) = 3

(***************************************************************************)
(* Claims about trainKMeans                                                *)
(***************************************************************************)
KMeansReturned ==
  /\ trainOut.ran
  /\ trainArgs.config.type = "kmeans"
  /\ ~trainOut.out.threw

\* X_train of the run
KMeansTrainRows ==
  Features(splitData(trainArgs.data, trainArgs.config.testSize,
                     trainArgs.config.randomSeed, trainOut.now).trainData,
           trainArgs.config)

\* the clusters (from 0) that no training point is closest to
EmptyClusters(points, centroids) ==
  {c \in 0..(Len(centroids) - 1) :
     \A i \in 1..Len(points) : ClosestCluster(points[i], centroids) # c}

RECURSIVE EmptyClustersFollowFirst(_, _, _, _, _)
\* from iteration iter on, every iteration yields k centroids and gives an
\* empty cluster the centroid that cluster 0 had before the iteration
EmptyClustersFollowFirst(points, centroids, m, k, iter) ==
  \/ iter >= KMeansMaxIterations
  \/ LET newCentroids == KMeansStep(points, centroids, m)
     IN /\ Len(newCentroids) = k
        /\ \A c \in EmptyClusters(points, centroids) : newCentroids[c + 1] = centroids[1]
        /\ \/ newCentroids = centroids
           \/ EmptyClustersFollowFirst(points, newCentroids, m, k, iter + 1)

\* C27: trainKMeans works with k = min(3, n_train) centroids that start as
\* the first k training points; in every iteration a cluster without a
\* training point gets the centroid cluster 0 had before the iteration, the
\* number of centroids stays k, and every prediction returned is a cluster
\* index in 0..k-1.
C27_KMeansKeepsKCentroids ==
  KMeansReturned =>
    LET X_train == KMeansTrainRows
        k == Min(3, Len(X_train))
        m == Len(trainArgs.config.featureColumns)
        points == Map(Ints, X_train)
        start == [c \in 1..k |-> [sum |-> points[c], cnt |-> 1]]
    IN /\ EmptyClustersFollowFirst(points, start, m, k, 0)
       /\ Len(KMeansCentroids(X_train, k, m)) = k
       /\ \A i \in 1..Len(trainOut.out.predictions) :
            trainOut.out.predictions[i] \in {IntVal(c) : c \in 0..(k - 1)}

\* C27 witness: a run over at least three training rows with features, in
\* whose first iteration a cluster stays empty, that returns predictions.
C27_Witness ==
  /\ KMeansReturned
  /\ Len(trainArgs.config.featureColumns) > 0
  /\ Len(KMeansTrainRows) >= 3
  /\ Len(trainOut.out.predictions) >= 1
  /\ LET points == Map(Ints, KMeansTrainRows)
     IN EmptyClusters(points, KMeansStep(points,
                        [c \in 1..3 |-> [sum |-> points[c], cnt |-> 1]],
                        Len(trainArgs.config.featureColumns))) # {}

(***************************************************************************)
(* Claims about shuffle                                                    *)
(***************************************************************************)
\* C28: for every dataset and every integer seed, zero and negative seeds
\* included, the test and train partitions of splitData are a permutation
\* of the input rows: no entry is undefined and every input row is in
\* exactly one place of exactly one partition.
C28_ShuffleIsPermutation ==
  \A r \in 1..Len(splitRuns) :
    LET rows == splitRuns[r].testData \o splitRuns[r].trainData
    IN /\ Len(rows) = Len(splitArgs.data)
       /\ \A k \in 1..Len(rows) : rows[k] # Undefined
       /\ \A i \in 1..Len(splitArgs.data) :
            Cardinality({k \in 1..Len(rows) : rows[k] = splitArgs.data[i]}) = 1

(***************************************************************************)
(* Claims about the steps of App (AppSpec)                                 *)
(***************************************************************************)
\* C29: under every interleaving of handleDataUploaded, handlePreprocess,
\* handleTrain and handleReset with their pending persistence calls, while
\* currentStep is 'model' preprocessedData is not null and the data given
\* to the training screen is preprocessedData.data; and from the end of
\* handleReset to the next upload the app is in the 'upload' step with
\* empty data.
C29_ModelStepHasPreprocessedData ==
  /\ app.currentStep = "model" =>
       /\ app.preprocessedData # Null
       /\ app.data = app.preprocessedData.data
  /\ app.sinceReset => (app.currentStep = "upload" /\ app.data = <<>>)

=============================================================================
